---- MODULE Spec2Model ----
(***************************************************************************)
(* Model of the OnlyOne canvas composer (src/utils/canvas_composer.py)     *)
(* with its configuration (src/config_printful.py), of the title renderer  *)
(* (src/utils/font_renderer.py) and of the part of the orchestrator that   *)
(* feeds the composer (src/main_onlyone.py).                               *)
(*                                                                         *)
(* Images are modelled by their pixel size, a canvas by its size and the   *)
(* list of layers pasted on it (element, source path, size, position), a   *)
(* title raster by its glyphs, the file system by the state of every       *)
(* input path and of every output path.                                    *)
(***************************************************************************)
EXTENDS Integers, Sequences, FiniteSets, TLC

VARIABLES
    files,      \* input path -> [kind: missing | corrupt | image | font, size]
    written,    \* output path -> [kind: absent | old | partial | canvas, size, layers]
    dirOK,      \* can os.makedirs(product_dir) succeed
    pc,         \* position of the running call
    call,       \* the call under way: operation and arguments
    ret,        \* return value of a compose_* call
    results,    \* the results map of create_all_variants_for_product
    attempted,  \* outputs whose compose_* call has been made
    io,         \* output path -> how the save to it ended ("none": no save begun)
    value       \* the value returned by a geometry function or by
                \* draw_curved_text; the asset dictionaries of run_workflow;
                \* in SpecTwice what the first call left

vars == <<files, written, dirOK, pc, call, ret, results, attempted, io, value>>

---------------------------------------------------------------------------
(* Bounds of the model *)

\* source images are drawn from the shapes 1..NShapes of Shape
NShapes == 4
\* the geometry functions are applied to canvases of MaxCanvas - 1 and
\* MaxCanvas pixels a side (and to the two canvas templates)
MaxCanvas == 5
\* ... to elements of up to MaxElem pixels a side
MaxElem == 4
\* ... and to margins 0..MaxMargin
MaxMargin == 1

---------------------------------------------------------------------------
(* Configuration: src/config_printful.py *)

CANVAS_TEMPLATES ==
    [main   |-> [width |-> 3600, height |-> 4800, dpi |-> 300, safe_margin |-> 75],
     sleeve |-> [width |-> 900,  height |-> 4200, dpi |-> 300, safe_margin |-> 75]]

MutLayoutTitleFullWidth ==
    [front  |-> [main_image |-> [width_percent |-> 45, top_percent |-> 20],
                 title      |-> [width_percent |-> 100, top_percent |-> 55],
                 wordmark   |-> [width_percent |-> 25, top_percent |-> 75]],
     back   |-> [main_image |-> [width_percent |-> 80, top_percent |-> 50]],
     sleeve |-> [logo       |-> [height_percent |-> 25, top_percent |-> 50]]]

LAYOUT_CONFIG ==
    [front  |-> [main_image |-> [width_percent |-> 45, top_percent |-> 20],
                 title      |-> [width_percent |-> 60, top_percent |-> 55],
                 wordmark   |-> [width_percent |-> 25, top_percent |-> 75]],
     back   |-> [main_image |-> [width_percent |-> 80, top_percent |-> 50]],
     sleeve |-> [logo       |-> [height_percent |-> 25, top_percent |-> 50]]]

---------------------------------------------------------------------------
(* Python values *)

\* Python's None (and every other falsy path value)
None == "None"

Max(a, b) == IF a >= b THEN a ELSE b
Min(a, b) == IF a <= b THEN a ELSE b

RECURSIVE GCD(_, _)
GCD(a, b) == IF b = 0 THEN a ELSE GCD(b, a % b)

RECURSIVE IsPow2(_)
IsPow2(n) == IF n = 1 THEN TRUE ELSE IF n % 2 = 1 THEN FALSE ELSE IsPow2(n \div 2)

\* num/den is a binary fraction, so that the double num/den is exact
ExactRatio(num, den) == IsPow2(den \div GCD(num, den))

(* int(t * (num / den)) in double arithmetic, t, num >= 0, den > 0.  The   *)
(* quotient num/den is rounded first; when t*num/den is an integer n and   *)
(* num/den is not exactly representable, the product can fall just below n *)
(* and truncate to n - 1 (int(1620 * (13 / 3)) = 7019).  Every value the   *)
(* arithmetic can produce is in the set.                                   *)
FloatMulTrunc(t, num, den) ==
    LET exact == (t * num) \div den
    IN  IF t * num > 0 /\ (t * num) % den = 0 /\ ~ExactRatio(num, den)
        THEN {exact, exact - 1}
        ELSE {exact}

---------------------------------------------------------------------------
(* CanvasComposer: the geometry *)

MutPositionRightEdge(canvas_size, element_size, position_config, alignment) ==
    LET canvas_w == canvas_size[1]
        canvas_h == canvas_size[2]
        elem_w   == element_size[1]
        elem_h   == element_size[2]
        y == IF "top_percent" \in DOMAIN position_config
             THEN (canvas_h * position_config.top_percent) \div 100
             ELSE (canvas_h - elem_h) \div 2
        x == IF alignment = "center" THEN (canvas_w - elem_w) \div 2
             ELSE IF alignment = "left" THEN (canvas_w * 1) \div 10
             ELSE IF alignment = "right" THEN (canvas_w * 9) \div 10
             ELSE (canvas_w - elem_w) \div 2
    IN  <<x, y>>

\* calculate_position: top-left paste position of an element
calculate_position(canvas_size, element_size, position_config, alignment) ==
    LET canvas_w == canvas_size[1]
        canvas_h == canvas_size[2]
        elem_w   == element_size[1]
        elem_h   == element_size[2]
        y == IF "top_percent" \in DOMAIN position_config
             THEN (canvas_h * position_config.top_percent) \div 100
             ELSE (canvas_h - elem_h) \div 2
        x == IF alignment = "center" THEN (canvas_w - elem_w) \div 2
             ELSE IF alignment = "left" THEN (canvas_w * 1) \div 10
             ELSE IF alignment = "right" THEN ((canvas_w * 9) \div 10) - elem_w
             ELSE (canvas_w - elem_w) \div 2
    IN  <<x, y>>

\* Image.resize: Pillow raises ValueError unless both target dimensions are >= 1
pil_resize(target) ==
    [ok |-> target[1] >= 1 /\ target[2] >= 1, size |-> target]

MutTargetWidthCeil(canvas_w, percent) == (canvas_w * percent + 99) \div 100

\* int(canvas_w * percent / 100): the product is exact, the quotient truncated
percent_of(canvas_dim, percent) == (canvas_dim * percent) \div 100

(* resize_maintaining_aspect: the set of results the call can have, each   *)
(* [ok, size]: ok = FALSE when Image.resize raises.  Without width_percent *)
(* and height_percent the image is returned as it is.                      *)
resize_maintaining_aspect(image, target_config, canvas_size) ==
    LET canvas_w == canvas_size[1]
        canvas_h == canvas_size[2]
    IN  IF "width_percent" \in DOMAIN target_config
        THEN LET target_width == percent_of(canvas_w, target_config.width_percent)
             IN  { pil_resize(<<target_width, target_height>>) :
                     target_height \in FloatMulTrunc(target_width, image[2], image[1]) }
        ELSE IF "height_percent" \in DOMAIN target_config
        THEN LET target_height == percent_of(canvas_h, target_config.height_percent)
             IN  { pil_resize(<<target_width, target_height>>) :
                     target_width \in FloatMulTrunc(target_height, image[1], image[2]) }
        ELSE { [ok |-> TRUE, size |-> image] }

MutClampSwapped(pos, elem, canvas_dim, margin) ==
    Min(Max(margin, pos), canvas_dim - elem - margin)

MutClampNone(pos, elem, canvas_dim, margin) == pos

\* one axis of apply_safe_margins
clamp_axis(pos, elem, canvas_dim, margin) ==
    Max(margin, Min(pos, canvas_dim - elem - margin))

\* apply_safe_margins: the position moved into the safe area
apply_safe_margins(position, element_size, canvas_size, margin) ==
    << clamp_axis(position[1], element_size[1], canvas_size[1], margin),
       clamp_axis(position[2], element_size[2], canvas_size[2], margin) >>

---------------------------------------------------------------------------
(* Images, canvases and files *)

\* the source images of the model: square, tall, flat, and the sizes of the
\* title and wordmark rasters
Shape(i) ==
    CASE i = 1 -> <<2000, 2000>>
      [] i = 2 -> <<3, 13>>
      [] i = 3 -> <<4000, 1>>
      [] i = 4 -> <<2400, 800>>
      [] i = 5 -> <<800, 300>>
      [] OTHER -> <<100 * i, 100>>

Missing == [kind |-> "missing", size |-> <<0, 0>>]
Corrupt == [kind |-> "corrupt", size |-> <<0, 0>>]
ImageFile(size) == [kind |-> "image", size |-> size]

\* an output path: no file, a file left by an earlier run, a file whose
\* write was cut short, or a saved canvas
Absent  == [kind |-> "absent",  size |-> <<0, 0>>, layers |-> <<>>]
OldFile == [kind |-> "old",     size |-> <<0, 0>>, layers |-> <<>>]
Partial == [kind |-> "partial", size |-> <<0, 0>>, layers |-> <<>>]
NoWrite == [kind |-> "nowrite", size |-> <<0, 0>>, layers |-> <<>>]

\* Image.new('RGBA', canvas_size, (255, 255, 255, 0)): a transparent canvas
image_new(size) == [kind |-> "canvas", size |-> size, layers |-> <<>>]

MutPasteGrows(canvas, elem, src, size, pos) ==
    [canvas EXCEPT !.size = <<Max(@[1], pos[1] + size[1]), Max(@[2], pos[2] + size[2])>>,
                   !.layers = Append(@, [elem |-> elem, src |-> src,
                                         size |-> size, pos |-> pos])]

\* canvas.paste(img, pos, img): one more layer on top, the canvas keeps its
\* size; src is the path the pasted raster was opened from
paste(canvas, elem, src, size, pos) ==
    [canvas EXCEPT !.layers = Append(@, [elem |-> elem, src |-> src,
                                         size |-> size, pos |-> pos])]

\* what a save can do: succeed, fail before the file is opened, fail while writing
SaveOutcomes == {"ok", "mkdir_failed", "write_failed"}

---------------------------------------------------------------------------
(* CanvasComposer: the compositions.  fs is the state of the input paths. *)

MutPlaceMissingFatal(fs, canvas, elem, image_path, config, canvas_size, safe_margin) ==
    IF image_path = None THEN { [st |-> "raised", canvas |-> canvas] }
    ELSE IF fs[image_path].kind # "image" THEN { [st |-> "raised", canvas |-> canvas] }
    ELSE { IF r.ok
           THEN [st |-> "placed",
                 canvas |-> paste(canvas, elem, image_path, r.size,
                     apply_safe_margins(
                         calculate_position(canvas_size, r.size, config, "center"),
                         r.size, canvas_size, safe_margin))]
           ELSE [st |-> "raised", canvas |-> canvas] :
           r \in resize_maintaining_aspect(fs[image_path].size, config, canvas_size) }

(* One element block of a compose_* method: os.path.exists, Image.open,    *)
(* resize, position, clamp, paste.  The set of results, each [st, canvas]: *)
(* "placed", "missing" (the else branch), or "raised" (an exception left   *)
(* the block: os.path.exists(None) is a TypeError, Image.open of a file    *)
(* that is no image raises, Image.resize to an empty size raises).         *)
place_element(fs, canvas, elem, image_path, config, canvas_size, safe_margin) ==
    IF image_path = None THEN { [st |-> "raised", canvas |-> canvas] }
    ELSE IF fs[image_path].kind = "missing" THEN { [st |-> "missing", canvas |-> canvas] }
    ELSE IF fs[image_path].kind = "corrupt" THEN { [st |-> "raised", canvas |-> canvas] }
    ELSE { IF r.ok
           THEN [st |-> "placed",
                 canvas |-> paste(canvas, elem, image_path, r.size,
                     apply_safe_margins(
                         calculate_position(canvas_size, r.size, config, "center"),
                         r.size, canvas_size, safe_margin))]
           ELSE [st |-> "raised", canvas |-> canvas] :
           r \in resize_maintaining_aspect(fs[image_path].size, config, canvas_size) }

(* os.makedirs(dirname(output_path)); canvas.save(output_path); return     *)
(* True, inside the method's try: [ret, write], write being the new state  *)
(* of output_path (NoWrite: the path is not touched), io how the save      *)
(* ended.                                                                  *)
save_and_return(canvas, save) ==
    IF save = "ok" THEN [ret |-> TRUE, write |-> canvas, io |-> save]
    ELSE IF save = "mkdir_failed" THEN [ret |-> FALSE, write |-> NoWrite, io |-> save]
    ELSE [ret |-> FALSE, write |-> Partial, io |-> save]

\* the except branch of a compose_* method, and its early return False
return_false == [ret |-> FALSE, write |-> NoWrite, io |-> "none"]

MutFrontTitleFirst(fs, main_image_path, title_image_path, wordmark_image_path, saves) ==
    LET template    == CANVAS_TEMPLATES.main
        canvas_size == <<template.width, template.height>>
        safe_margin == template.safe_margin
        canvas      == image_new(canvas_size)
        cfg         == LAYOUT_CONFIG.front
        after_title == place_element(fs, canvas, "title", title_image_path,
                                     cfg.title, canvas_size, safe_margin)
        after_main(t) == place_element(fs, t.canvas, "main_image", main_image_path,
                                     cfg.main_image, canvas_size, safe_margin)
        after_wordmark(m) == place_element(fs, m.canvas, "wordmark", wordmark_image_path,
                                     cfg.wordmark, canvas_size, safe_margin)
    IN  UNION { IF t.st = "raised" THEN { return_false }
                ELSE UNION { IF m.st = "raised" THEN { return_false }
                             ELSE UNION { IF w.st = "raised" THEN { return_false }
                                          ELSE { save_and_return(w.canvas, s) : s \in saves } :
                                          w \in after_wordmark(m) } :
                             m \in after_main(t) } :
                t \in after_title }

\* compose_front: artwork, then title, then wordmark; every result the call
\* can have when the save ends in one of `saves`
compose_front(fs, main_image_path, title_image_path, wordmark_image_path, saves) ==
    LET template    == CANVAS_TEMPLATES.main
        canvas_size == <<template.width, template.height>>
        safe_margin == template.safe_margin
        canvas      == image_new(canvas_size)
        cfg         == LAYOUT_CONFIG.front
        after_main  == place_element(fs, canvas, "main_image", main_image_path,
                                     cfg.main_image, canvas_size, safe_margin)
        after_title(m) == place_element(fs, m.canvas, "title", title_image_path,
                                     cfg.title, canvas_size, safe_margin)
        after_wordmark(t) == place_element(fs, t.canvas, "wordmark", wordmark_image_path,
                                     cfg.wordmark, canvas_size, safe_margin)
    IN  UNION { IF m.st = "raised" THEN { return_false }
                ELSE UNION { IF t.st = "raised" THEN { return_false }
                             ELSE UNION { IF w.st = "raised" THEN { return_false }
                                          ELSE { save_and_return(w.canvas, s) : s \in saves } :
                                          w \in after_wordmark(t) } :
                             t \in after_title(m) } :
                m \in after_main }

MutBackSavesEmpty(fs, main_image_path, saves) ==
    LET template    == CANVAS_TEMPLATES.main
        canvas_size == <<template.width, template.height>>
        safe_margin == template.safe_margin
        canvas      == image_new(canvas_size)
        placed      == place_element(fs, canvas, "main_image", main_image_path,
                                     LAYOUT_CONFIG.back.main_image, canvas_size, safe_margin)
    IN  UNION { IF m.st = "raised" THEN { return_false }
                ELSE { save_and_return(m.canvas, s) : s \in saves } :
                m \in placed }

\* compose_back: the artwork alone; False without saving when it is missing
compose_back(fs, main_image_path, saves) ==
    LET template    == CANVAS_TEMPLATES.main
        canvas_size == <<template.width, template.height>>
        safe_margin == template.safe_margin
        canvas      == image_new(canvas_size)
        placed      == place_element(fs, canvas, "main_image", main_image_path,
                                     LAYOUT_CONFIG.back.main_image, canvas_size, safe_margin)
    IN  UNION { IF m.st = "raised" THEN { return_false }
                ELSE IF m.st = "missing" THEN { return_false }
                ELSE { save_and_return(m.canvas, s) : s \in saves } :
                m \in placed }

\* compose_sleeve: the logo alone on the sleeve canvas; False without saving
\* when it is missing
compose_sleeve(fs, logo_image_path, saves) ==
    LET template    == CANVAS_TEMPLATES.sleeve
        canvas_size == <<template.width, template.height>>
        safe_margin == template.safe_margin
        canvas      == image_new(canvas_size)
        placed      == place_element(fs, canvas, "logo", logo_image_path,
                                     LAYOUT_CONFIG.sleeve.logo, canvas_size, safe_margin)
    IN  UNION { IF m.st = "raised" THEN { return_false }
                ELSE IF m.st = "missing" THEN { return_false }
                ELSE { save_and_return(m.canvas, s) : s \in saves } :
                m \in placed }

MutWriteOnTop(fsout, output_path, r) ==
    IF r.write.kind = "nowrite" THEN fsout
    ELSE IF r.write.kind = "canvas" /\ fsout[output_path].kind = "canvas"
    THEN [fsout EXCEPT ![output_path] =
             [r.write EXCEPT !.layers = fsout[output_path].layers \o @]]
    ELSE [fsout EXCEPT ![output_path] = r.write]

\* the state of output_path after a compose_* call with result r
write_file(fsout, output_path, r) ==
    IF r.write.kind = "nowrite" THEN fsout
    ELSE [fsout EXCEPT ![output_path] = r.write]

---------------------------------------------------------------------------
(* SpecCompose: one direct call of compose_front, compose_back or          *)
(* compose_sleeve on a file system drawn in Init.                          *)

ARTWORK == "artwork.png"
InputPaths == {ARTWORK, "title_dark.png", "title_light.png", "wordmark_dark.png",
               "wordmark_light.png", "logo_dark.png", "logo_light.png"}
OUT == "out.png"

FileStates == {Missing, Corrupt} \cup { ImageFile(Shape(i)) : i \in 1..NShapes }

NoResults == [v \in {} |-> None]
NoValue == [ok |-> FALSE, v |-> <<0, 0>>]

\* a path argument: None, or the path of a file in any state
ArgChoices(path) ==
    { [arg |-> None, file |-> Missing] } \cup { [arg |-> path, file |-> f] : f \in FileStates }

ComposeCall(op, main, title, wordmark, logo) ==
    [op |-> op, main_image_path |-> main, title_image_path |-> title,
     wordmark_image_path |-> wordmark, logo_image_path |-> logo, output_path |-> OUT]

InitCompose ==
    /\ \E m \in ArgChoices(ARTWORK), t \in ArgChoices("title_dark.png"),
          w \in ArgChoices("wordmark_dark.png"), l \in ArgChoices("logo_dark.png") :
          \E op \in {"compose_front", "compose_back", "compose_sleeve"} :
             /\ op = "compose_front" => l.arg = None
             /\ op = "compose_back" => t.arg = None /\ w.arg = None /\ l.arg = None
             /\ op = "compose_sleeve" => m.arg = None /\ t.arg = None /\ w.arg = None
             /\ call = ComposeCall(op, m.arg, t.arg, w.arg, l.arg)
             /\ files = [p \in InputPaths |->
                           CASE p = ARTWORK -> m.file
                             [] p = "title_dark.png" -> t.file
                             [] p = "wordmark_dark.png" -> w.file
                             [] p = "logo_dark.png" -> l.file
                             [] OTHER -> Missing]
    /\ written \in [{OUT} -> {Absent, OldFile}]
    /\ io = [p \in {OUT} |-> "none"]
    /\ dirOK = TRUE
    /\ pc = "called"
    /\ ret = FALSE
    /\ results = NoResults
    /\ attempted = {}
    /\ value = NoValue

Returns(r) ==
    /\ ret' = r.ret
    /\ written' = write_file(written, call.output_path, r)
    /\ io' = [io EXCEPT ![call.output_path] = r.io]
    /\ pc' = "returned"
    /\ UNCHANGED <<files, dirOK, call, results, attempted, value>>

CallComposeFront ==
    /\ pc = "called" /\ call.op = "compose_front"
    /\ \E r \in compose_front(files, call.main_image_path, call.title_image_path,
                              call.wordmark_image_path, SaveOutcomes) : Returns(r)

CallComposeBack ==
    /\ pc = "called" /\ call.op = "compose_back"
    /\ \E r \in compose_back(files, call.main_image_path, SaveOutcomes) : Returns(r)

CallComposeSleeve ==
    /\ pc = "called" /\ call.op = "compose_sleeve"
    /\ \E r \in compose_sleeve(files, call.logo_image_path, SaveOutcomes) : Returns(r)

NextCompose == CallComposeFront \/ CallComposeBack \/ CallComposeSleeve

SpecCompose == InitCompose /\ [][NextCompose]_vars

---------------------------------------------------------------------------
(* Properties of the compose_* calls (SpecCompose) *)

\* the canvas template a compose_* method works on
TemplateOf(op) ==
    IF op = "compose_sleeve" THEN CANVAS_TEMPLATES.sleeve ELSE CANVAS_TEMPLATES.main

SavedCanvas == written[OUT].kind = "canvas"

LayerIndices == 1..Len(written[OUT].layers)

\* the layer starts at or after the margin on both axes
NearSideInside(l, t) ==
    t.safe_margin <= l.pos[1] /\ t.safe_margin <= l.pos[2]

\* the layer ends at or before canvas_dim - margin on both axes
FarSideInside(l, t) ==
    /\ l.pos[1] + l.size[1] <= t.width - t.safe_margin
    /\ l.pos[2] + l.size[2] <= t.height - t.safe_margin

\* C1 as claimed: the bounding box of every placed element lies within
\* [margin, canvas_dim - margin] on both axes, whatever the element's size.
C1Original ==
    SavedCanvas =>
        \A i \in LayerIndices :
            LET l == written[OUT].layers[i]
                t == TemplateOf(call.op)
            IN  NearSideInside(l, t) /\ FarSideInside(l, t)

\* C1 as amended: every placed element starts at or after the margin on both
\* axes; on an axis where the element is no larger than the safe area
\* (canvas_dim - 2*margin) it also ends at or before canvas_dim - margin; an
\* element larger than the safe area is placed at the margin and overflows
\* on the far side.
C1Amended ==
    SavedCanvas =>
        \A i \in LayerIndices :
            LET l == written[OUT].layers[i]
                t == TemplateOf(call.op)
            IN  /\ NearSideInside(l, t)
                /\ l.size[1] <= t.width - 2 * t.safe_margin
                     => l.pos[1] + l.size[1] <= t.width - t.safe_margin
                /\ l.size[2] <= t.height - 2 * t.safe_margin
                     => l.pos[2] + l.size[2] <= t.height - t.safe_margin
                /\ l.size[1] > t.width - 2 * t.safe_margin => l.pos[1] = t.safe_margin
                /\ l.size[2] > t.height - 2 * t.safe_margin => l.pos[2] = t.safe_margin

\* an element taller than the safe area was placed at the margin and
\* overflows, and an element that had to be moved up fits after the clamp
C1Witness ==
    /\ SavedCanvas /\ call.op = "compose_front"
    /\ \E i \in LayerIndices :
          LET l == written[OUT].layers[i]
          IN  l.size[2] > 4650 /\ l.pos[2] = 75 /\ l.pos[2] + l.size[2] > 4725
    /\ \E i \in LayerIndices :
          LET l == written[OUT].layers[i]
          IN  l.elem = "wordmark" /\ l.pos[2] < 3600 /\ l.pos[2] + l.size[2] = 4725

\* C2: every canvas saved by compose_front and compose_back is exactly
\* 3600x4800 and every canvas saved by compose_sleeve exactly 900x4200,
\* whatever was pasted on it.
C2Theorem ==
    SavedCanvas =>
        written[OUT].size = IF call.op = "compose_sleeve" THEN <<900, 4200>>
                            ELSE <<3600, 4800>>

\* a front canvas saved with three layers, one of them larger than the canvas
C2Witness ==
    /\ SavedCanvas /\ call.op = "compose_front" /\ ret
    /\ Len(written[OUT].layers) = 3
    /\ \E i \in LayerIndices : written[OUT].layers[i].size[2] > 4800
    /\ written[OUT].size = <<3600, 4800>>

FrontCallReturned == pc = "returned" /\ call.op = "compose_front"

FrontArgs ==
    << [elem |-> "main_image", path |-> call.main_image_path],
       [elem |-> "title",      path |-> call.title_image_path],
       [elem |-> "wordmark",   path |-> call.wordmark_image_path] >>

AllPathsStrings == \A i \in 1..3 : FrontArgs[i].path # None

Exists(path) == path # None /\ files[path].kind # "missing"

\* the file at path exists and opening or resizing it for the front rule of
\* elem can raise
CanRaise(a) ==
    /\ Exists(a.path)
    /\ \/ files[a.path].kind = "corrupt"
       \/ \E r \in resize_maintaining_aspect(files[a.path].size, LAYOUT_CONFIG.front[a.elem],
                                             <<3600, 4800>>) : ~r.ok

LayerNames == [i \in LayerIndices |-> written[OUT].layers[i].elem]

IsPresent(a) == Exists(a.path)
IsDecodable(a) == Exists(a.path) /\ files[a.path].kind = "image"

ElemOf(a) == a.elem
RECURSIVE NamesOf(_)
NamesOf(sq) == IF sq = <<>> THEN <<>> ELSE <<ElemOf(Head(sq))>> \o NamesOf(Tail(sq))

\* C5: compose_front called with three path strings fails only through a
\* file that exists (corrupt, or resized to nothing) or through the save,
\* never through a file that does not exist; when the save succeeds it
\* returns True and the saved canvas holds exactly the layers whose files
\* exist, in the order artwork, title, wordmark.
C5Theorem ==
    (FrontCallReturned /\ AllPathsStrings) =>
        /\ ret <=> io[OUT] = "ok"
        /\ io[OUT] = "none" => \E i \in 1..3 : CanRaise(FrontArgs[i])
        /\ (\A i \in 1..3 : ~CanRaise(FrontArgs[i])) => io[OUT] # "none"
        /\ ret => /\ SavedCanvas
                  /\ LayerNames = NamesOf(SelectSeq(FrontArgs, IsPresent))

\* title and wordmark files do not exist, the artwork does: the call returned
\* True and the saved canvas holds the artwork layer alone
C5Witness ==
    /\ FrontCallReturned /\ AllPathsStrings /\ ret
    /\ files[call.main_image_path].kind = "image"
    /\ files[call.title_image_path].kind = "missing"
    /\ files[call.wordmark_image_path].kind = "missing"
    /\ SavedCanvas /\ LayerNames = <<"main_image">>

\* the required element of compose_back / compose_sleeve names no file
RequiredMissing ==
    \/ /\ call.op = "compose_back"
       /\ call.main_image_path # None /\ files[call.main_image_path].kind = "missing"
    \/ /\ call.op = "compose_sleeve"
       /\ call.logo_image_path # None /\ files[call.logo_image_path].kind = "missing"

\* C6: a compose_back call whose artwork file is missing and a compose_sleeve
\* call whose logo file is missing return False, begin no save and leave
\* output_path as it was (absent stays absent, an old file stays unchanged).
C6Theorem ==
    [][(pc = "called" /\ RequiredMissing) =>
          (pc' = "returned" /\ ret' = FALSE /\ written' = written /\ io' = io)]_vars

\* compose_back returned False for a missing artwork and the old file at
\* output_path is still there
C6Witness ==
    /\ pc = "returned" /\ call.op = "compose_back" /\ RequiredMissing
    /\ ~ret /\ written[OUT] = OldFile /\ io[OUT] = "none"

\* C8 as claimed: in compose_front a file that exists but is no image is
\* treated as missing for its layer only: the save is reached, and when it
\* succeeds the call returns True with the layers of the decodable files.
C8Claim ==
    (/\ FrontCallReturned /\ AllPathsStrings
     /\ \E i \in 1..3 : files[FrontArgs[i].path].kind = "corrupt"
     /\ \A i \in 1..3 : files[FrontArgs[i].path].kind = "image" => ~CanRaise(FrontArgs[i]))
    => /\ io[OUT] # "none"
       /\ io[OUT] = "ok" => /\ ret /\ SavedCanvas
                            /\ LayerNames = NamesOf(SelectSeq(FrontArgs, IsDecodable))

---------------------------------------------------------------------------
(* SpecGeom: apply_safe_margins and resize_maintaining_aspect applied to   *)
(* arguments drawn in Init.                                                *)

SmallDims == (MaxCanvas - 1)..MaxCanvas

GeomCall(op, position, element_size, canvas_size, margin, target_config, image) ==
    [op |-> op, position |-> position, element_size |-> element_size,
     canvas_size |-> canvas_size, margin |-> margin,
     target_config |-> target_config, image |-> image]

\* the alignments calculate_position knows, and one it does not
Alignments == {"center", "left", "right", "justify"}

\* element sides handed to calculate_position: none, one pixel, the largest
\* small element, and one larger than every small canvas
PositionElems == {0, 1, MaxElem, MaxCanvas + 1}

PositionCall(canvas_size, element_size, position_config, alignment) ==
    [op |-> "calculate_position", canvas_size |-> canvas_size,
     element_size |-> element_size, position_config |-> position_config,
     alignment |-> alignment]

InitGeom ==
    /\ \/ \E position \in (-1..MaxCanvas) \X (-1..MaxCanvas),
             element_size \in (0..MaxElem) \X (0..MaxElem),
             canvas_size \in SmallDims \X SmallDims,
             margin \in 0..MaxMargin :
             call = GeomCall("apply_safe_margins", position, element_size, canvas_size,
                             margin, [top_percent |-> 50], <<1, 1>>)
       \/ \E canvas_size \in {<<900, 4200>>, <<3600, 4800>>} \cup { <<c, c>> : c \in SmallDims },
             image \in (1..MaxElem) \X (1..MaxElem) :
             \/ \E P \in 0..100 :
                   call = GeomCall("resize_maintaining_aspect", <<0, 0>>, <<0, 0>>,
                                   canvas_size, 0, [width_percent |-> P], image)
             \/ \E P \in 0..100 :
                   call = GeomCall("resize_maintaining_aspect", <<0, 0>>, <<0, 0>>,
                                   canvas_size, 0, [height_percent |-> P], image)
             \/ call = GeomCall("resize_maintaining_aspect", <<0, 0>>, <<0, 0>>,
                                canvas_size, 0, [top_percent |-> 50], image)
       \/ \E canvas_size \in {<<900, 4200>>, <<3600, 4800>>} \cup { <<c, c>> : c \in SmallDims },
             element_size \in PositionElems \X PositionElems,
             alignment \in Alignments :
             \/ \E P \in 0..100 :
                   call = PositionCall(canvas_size, element_size, [top_percent |-> P], alignment)
             \/ call = PositionCall(canvas_size, element_size, [width_percent |-> 45], alignment)
    /\ files = [p \in InputPaths |-> Missing]
    /\ written = [p \in {OUT} |-> Absent]
    /\ io = [p \in {OUT} |-> "none"]
    /\ dirOK = TRUE
    /\ pc = "called"
    /\ ret = FALSE
    /\ results = NoResults
    /\ attempted = {}
    /\ value = NoValue

ApplySafeMargins ==
    /\ pc = "called" /\ call.op = "apply_safe_margins"
    /\ value' = [ok |-> TRUE,
                 v |-> apply_safe_margins(call.position, call.element_size,
                                          call.canvas_size, call.margin)]
    /\ pc' = "returned"
    /\ UNCHANGED <<files, written, dirOK, call, ret, results, attempted, io>>

ResizeMaintainingAspect ==
    /\ pc = "called" /\ call.op = "resize_maintaining_aspect"
    /\ \E r \in resize_maintaining_aspect(call.image, call.target_config, call.canvas_size) :
          value' = [ok |-> r.ok, v |-> r.size]
    /\ pc' = "returned"
    /\ UNCHANGED <<files, written, dirOK, call, ret, results, attempted, io>>

CalculatePosition ==
    /\ pc = "called" /\ call.op = "calculate_position"
    /\ value' = [ok |-> TRUE,
                 v |-> calculate_position(call.canvas_size, call.element_size,
                                          call.position_config, call.alignment)]
    /\ pc' = "returned"
    /\ UNCHANGED <<files, written, dirOK, call, ret, results, attempted, io>>

NextGeom == ApplySafeMargins \/ ResizeMaintainingAspect \/ CalculatePosition

SpecGeom == InitGeom /\ [][NextGeom]_vars

---------------------------------------------------------------------------
(* Properties of the geometry functions (SpecGeom) *)

Clamped == pc = "returned" /\ call.op = "apply_safe_margins"

\* the element is no larger than the safe area on axis k
FitsSafeArea(k) == call.element_size[k] <= call.canvas_size[k] - 2 * call.margin

\* C9: on each axis apply_safe_margins returns the position clamped into
\* [margin, canvas_dim - margin - element_dim] when the element is no larger
\* than the safe area (a position inside the range unchanged), and margin
\* when it is larger; it never fails.
C9Theorem ==
    Clamped =>
        /\ value.ok
        /\ \A k \in {1, 2} :
              LET lo  == call.margin
                  hi  == call.canvas_size[k] - call.margin - call.element_size[k]
                  pos == call.position[k]
              IN  IF FitsSafeArea(k)
                  THEN /\ lo <= value.v[k] /\ value.v[k] <= hi
                       /\ pos < lo => value.v[k] = lo
                       /\ pos > hi => value.v[k] = hi
                       /\ (lo <= pos /\ pos <= hi) => value.v[k] = pos
                  ELSE value.v[k] = call.margin

\* an element wider than the safe area collapsed to the margin on the x axis
\* while on the y axis a position past the range was pulled back to its end
C9Witness ==
    /\ Clamped
    /\ ~FitsSafeArea(1) /\ call.position[1] > call.margin /\ value.v[1] = call.margin
    /\ FitsSafeArea(2) /\ call.margin > 0
    /\ call.position[2] > call.canvas_size[2] - call.margin - call.element_size[2]
    /\ value.v[2] = call.canvas_size[2] - call.margin - call.element_size[2]

Resized == pc = "returned" /\ call.op = "resize_maintaining_aspect"

\* n/d rounded to the nearest integer
Round(n, d) == (2 * n + d) \div (2 * d)

\* |a - n/d| <= 1
WithinOne(a, n, d) == a * d - n <= d /\ n - a * d <= d

\* C10 as claimed: with width_percent = P the image asked of Image.resize
\* has width round(canvas_width * P / 100) and a height within 1 pixel of
\* width * h0 / w0, for every canvas width, P in 0..100 and source size;
\* symmetrically for height_percent.
C10Original ==
    Resized =>
        /\ "width_percent" \in DOMAIN call.target_config =>
              /\ value.v[1] = Round(call.canvas_size[1] * call.target_config.width_percent, 100)
              /\ WithinOne(value.v[2], value.v[1] * call.image[2], call.image[1])
        /\ ("width_percent" \notin DOMAIN call.target_config
              /\ "height_percent" \in DOMAIN call.target_config) =>
              /\ value.v[2] = Round(call.canvas_size[2] * call.target_config.height_percent, 100)
              /\ WithinOne(value.v[1], value.v[2] * call.image[1], call.image[2])

\* the target of the call: the dimension the rule sets and the derived one,
\* as (set, derived, source dimension along set, source dimension along derived)
ResizeTarget ==
    IF "width_percent" \in DOMAIN call.target_config
    THEN [set |-> value.v[1], derived |-> value.v[2],
          canvas |-> call.canvas_size[1], percent |-> call.target_config.width_percent,
          along |-> call.image[1], across |-> call.image[2]]
    ELSE [set |-> value.v[2], derived |-> value.v[1],
          canvas |-> call.canvas_size[2], percent |-> call.target_config.height_percent,
          along |-> call.image[2], across |-> call.image[1]]

\* C10 as amended: with width_percent = P the target width is
\* canvas_width * P / 100 truncated (not rounded) and the target height is
\* width * h0 / w0 truncated, at most 1 pixel below it; the call returns an
\* image of that size when both are at least 1 and raises when one of them
\* is 0 (as for P = 0); symmetrically for height_percent.
C10Amended ==
    (Resized /\ (\E f \in {"width_percent", "height_percent"} : f \in DOMAIN call.target_config)) =>
        LET t == ResizeTarget
        IN  /\ t.set * 100 <= t.canvas * t.percent
            /\ t.canvas * t.percent < (t.set + 1) * 100
            /\ t.derived * t.along <= t.set * t.across
            /\ t.set * t.across - t.derived * t.along <= t.along
            /\ value.ok <=> (t.set >= 1 /\ t.derived >= 1)

\* an image was returned whose width is the truncation of a value that
\* rounds up to the next integer
C10Witness ==
    /\ Resized /\ "width_percent" \in DOMAIN call.target_config /\ value.ok
    /\ (call.canvas_size[1] * call.target_config.width_percent) % 100 >= 50
    /\ value.v[1] = (call.canvas_size[1] * call.target_config.width_percent) \div 100
    /\ value.v[1] # Round(call.canvas_size[1] * call.target_config.width_percent, 100)

---------------------------------------------------------------------------
(* Spec: one call of create_all_variants_for_product.                      *)

Variants == {"front_light", "front_dark", "back", "sleeve_dark", "sleeve_light"}
AssetKeys == {"title_dark", "title_light", "wordmark_dark", "wordmark_light",
              "logo_dark", "logo_light"}

SLUG == "slug"
OUTPUT_DIR == "artifacts"

\* os.path.join(product_dir, f"{slug}_{variant}.png")
OutPath(v) == OUTPUT_DIR \o "/" \o SLUG \o "/" \o SLUG \o "_" \o v \o ".png"
OutPaths == { OutPath(v) : v \in Variants }

\* the local file an asset key names, and the raster it holds when it is an image
AssetPath(k) == k \o ".png"
AssetImage(k) ==
    CASE k \in {"title_dark", "title_light"} -> <<2400, 800>>
      [] k \in {"wordmark_dark", "wordmark_light"} -> <<800, 300>>
      [] OTHER -> <<500, 1000>>

\* an entry of asset_urls: None, or the path of a file in some state
AssetChoices(k) ==
    { [arg |-> None, file |-> Missing] } \cup
    { [arg |-> AssetPath(k), file |-> f] : f \in {Missing, Corrupt, ImageFile(AssetImage(k))} }

\* the product directory exists when a composition saves: only the write can fail
WorkflowSaves == {"ok", "write_failed"}

Init ==
    /\ \E a \in [AssetKeys -> {None, "path"}] :
       \E f \in [AssetKeys -> {"missing", "corrupt", "image"}] :
       \E m \in {Missing, Corrupt, ImageFile(<<2000, 2000>>)} :
          /\ \A k \in AssetKeys : a[k] = None => f[k] = "missing"
          /\ call = [op |-> "create_all_variants_for_product", slug |-> SLUG,
                     main_image_path |-> ARTWORK,
                     asset_urls |-> [k \in AssetKeys |->
                                       IF a[k] = None THEN None ELSE AssetPath(k)],
                     output_dir |-> OUTPUT_DIR]
          /\ files = [p \in InputPaths |->
                        IF p = ARTWORK THEN m
                        ELSE LET k == CHOOSE k \in AssetKeys : AssetPath(k) = p
                             IN  CASE f[k] = "missing" -> Missing
                                   [] f[k] = "corrupt" -> Corrupt
                                   [] OTHER -> ImageFile(AssetImage(k))]
    /\ dirOK \in BOOLEAN
    /\ written = [p \in OutPaths |-> Absent]
    /\ io = [p \in OutPaths |-> "none"]
    /\ pc = "start"
    /\ ret = FALSE
    /\ results = NoResults
    /\ attempted = {}
    /\ value = NoValue

\* results = {...}; os.makedirs(product_dir, exist_ok=True), outside the try:
\* when the directory cannot be created the exception leaves the method
MakeProductDir ==
    /\ pc = "start"
    /\ results' = [v \in Variants |-> None]
    /\ pc' = IF dirOK THEN "front_light" ELSE "raised"
    /\ UNCHANGED <<files, written, dirOK, call, ret, attempted, io, value>>

MutComposedAlways(v, r) ==
    /\ ret' = r.ret
    /\ written' = write_file(written, OutPath(v), r)
    /\ io' = [io EXCEPT ![OutPath(v)] = r.io]
    /\ results' = [results EXCEPT ![v] = OutPath(v)]
    /\ attempted' = attempted \cup {v}

\* success = self.compose_*(...); if success: results[v] = path
Composed(v, r) ==
    /\ ret' = r.ret
    /\ written' = write_file(written, OutPath(v), r)
    /\ io' = [io EXCEPT ![OutPath(v)] = r.io]
    /\ results' = IF r.ret THEN [results EXCEPT ![v] = OutPath(v)] ELSE results
    /\ attempted' = attempted \cup {v}

Skipped == UNCHANGED <<ret, written, io, results, attempted>>

MutFrontLightSwapped ==
    /\ pc = "front_light"
    /\ IF call.asset_urls["title_dark"] # None /\ call.asset_urls["wordmark_dark"] # None
       THEN \E r \in compose_front(files, call.main_image_path,
                                   call.asset_urls["title_light"],
                                   call.asset_urls["wordmark_light"], WorkflowSaves) :
               Composed("front_light", r)
       ELSE Skipped
    /\ pc' = "front_dark"
    /\ UNCHANGED <<files, dirOK, call, value>>

FrontLight ==
    /\ pc = "front_light"
    /\ IF call.asset_urls["title_dark"] # None /\ call.asset_urls["wordmark_dark"] # None
       THEN \E r \in compose_front(files, call.main_image_path,
                                   call.asset_urls["title_dark"],
                                   call.asset_urls["wordmark_dark"], WorkflowSaves) :
               Composed("front_light", r)
       ELSE Skipped
    /\ pc' = "front_dark"
    /\ UNCHANGED <<files, dirOK, call, value>>

FrontDark ==
    /\ pc = "front_dark"
    /\ IF call.asset_urls["title_light"] # None /\ call.asset_urls["wordmark_light"] # None
       THEN \E r \in compose_front(files, call.main_image_path,
                                   call.asset_urls["title_light"],
                                   call.asset_urls["wordmark_light"], WorkflowSaves) :
               Composed("front_dark", r)
       ELSE Skipped
    /\ pc' = "back"
    /\ UNCHANGED <<files, dirOK, call, value>>

Back ==
    /\ pc = "back"
    /\ \E r \in compose_back(files, call.main_image_path, WorkflowSaves) :
          Composed("back", r)
    /\ pc' = "sleeve_dark"
    /\ UNCHANGED <<files, dirOK, call, value>>

MutSleeveDarkNeedsBack ==
    /\ pc = "sleeve_dark"
    /\ IF call.asset_urls["logo_dark"] # None /\ results["back"] # None
       THEN \E r \in compose_sleeve(files, call.asset_urls["logo_dark"], WorkflowSaves) :
               Composed("sleeve_dark", r)
       ELSE Skipped
    /\ pc' = "sleeve_light"
    /\ UNCHANGED <<files, dirOK, call, value>>

SleeveDark ==
    /\ pc = "sleeve_dark"
    /\ IF call.asset_urls["logo_dark"] # None
       THEN \E r \in compose_sleeve(files, call.asset_urls["logo_dark"], WorkflowSaves) :
               Composed("sleeve_dark", r)
       ELSE Skipped
    /\ pc' = "sleeve_light"
    /\ UNCHANGED <<files, dirOK, call, value>>

SleeveLight ==
    /\ pc = "sleeve_light"
    /\ IF call.asset_urls["logo_light"] # None
       THEN \E r \in compose_sleeve(files, call.asset_urls["logo_light"], WorkflowSaves) :
               Composed("sleeve_light", r)
       ELSE Skipped
    /\ pc' = "summary"
    /\ UNCHANGED <<files, dirOK, call, value>>

\* the summary line and return results
Return ==
    /\ pc = "summary"
    /\ pc' = "returned"
    /\ UNCHANGED <<files, written, dirOK, call, ret, results, attempted, io, value>>

Next ==
    \/ MakeProductDir
    \/ FrontLight
    \/ FrontDark
    \/ Back
    \/ SleeveDark
    \/ SleeveLight
    \/ Return

Spec == Init /\ [][Next]_vars

---------------------------------------------------------------------------
(* Properties of create_all_variants_for_product (Spec) *)

Urls == call.asset_urls

\* the condition under which the method calls the composition of v
Gate(v) ==
    CASE v = "front_light"  -> Urls["title_dark"] # None /\ Urls["wordmark_dark"] # None
      [] v = "front_dark"   -> Urls["title_light"] # None /\ Urls["wordmark_light"] # None
      [] v = "back"         -> TRUE
      [] v = "sleeve_dark"  -> Urls["logo_dark"] # None
      [] v = "sleeve_light" -> Urls["logo_light"] # None

\* the results the composition of v can have when it runs alone on its own inputs
OwnCompose(v) ==
    CASE v = "front_light"  -> compose_front(files, call.main_image_path,
                                   Urls["title_dark"], Urls["wordmark_dark"], WorkflowSaves)
      [] v = "front_dark"   -> compose_front(files, call.main_image_path,
                                   Urls["title_light"], Urls["wordmark_light"], WorkflowSaves)
      [] v = "back"         -> compose_back(files, call.main_image_path, WorkflowSaves)
      [] v = "sleeve_dark"  -> compose_sleeve(files, Urls["logo_dark"], WorkflowSaves)
      [] v = "sleeve_light" -> compose_sleeve(files, Urls["logo_light"], WorkflowSaves)

\* C3 as claimed: every call returns, never raises, a map with exactly the
\* five keys, each entry None or the path of that output.
C3Claim ==
    /\ pc # "raised"
    /\ pc = "returned" =>
          /\ DOMAIN results = Variants
          /\ \A v \in Variants : results[v] \in {None, OutPath(v)}

\* C4: when the call returns, every composition whose inputs are given has
\* been attempted whatever happened to its siblings, and its entry, its
\* output file and the end of its save are those of that composition run
\* alone on its own inputs; a composition whose inputs are not given is not
\* attempted, its entry is None and its output path untouched.
C4Theorem ==
    pc = "returned" =>
        \A v \in Variants :
            IF Gate(v)
            THEN /\ v \in attempted
                 /\ \E r \in OwnCompose(v) :
                       /\ results[v] = IF r.ret THEN OutPath(v) ELSE None
                       /\ io[OutPath(v)] = r.io
                       /\ written[OutPath(v)] = IF r.write.kind = "nowrite" THEN Absent
                                                ELSE r.write
                 /\ results[v] # None <=> io[OutPath(v)] = "ok"
            ELSE /\ v \notin attempted
                 /\ results[v] = None
                 /\ written[OutPath(v)] = Absent

\* front_light failed on a corrupt title and sleeve_dark on its save, and
\* front_dark, back and sleeve_light were still composed and saved
C4Witness ==
    /\ pc = "returned" /\ attempted = Variants
    /\ files["title_dark.png"].kind = "corrupt" /\ results["front_light"] = None
    /\ io[OutPath("sleeve_dark")] = "write_failed" /\ results["sleeve_dark"] = None
    /\ results["front_dark"] = OutPath("front_dark")
    /\ results["back"] = OutPath("back")
    /\ results["sleeve_light"] = OutPath("sleeve_light")
    /\ written[OutPath("sleeve_light")].kind = "canvas"

\* C7 as claimed: with only the title or only the wordmark of the light
\* variant None (the artwork and the other raster being images), the call
\* still composes front_light and, unless its save fails, returns a
\* non-None front_light entry.
C7Claim ==
    (/\ pc = "returned"
     /\ files[ARTWORK].kind = "image"
     /\ \/ /\ Urls["title_dark"] = None
           /\ Urls["wordmark_dark"] # None /\ files["wordmark_dark.png"].kind = "image"
        \/ /\ Urls["wordmark_dark"] = None
           /\ Urls["title_dark"] # None /\ files["title_dark.png"].kind = "image")
    => /\ "front_light" \in attempted
       /\ results["front_light"] # None \/ io[OutPath("front_light")] = "write_failed"

---------------------------------------------------------------------------
(* The inputs of each output *)

\* the path each element of output v is to be opened from
InputOf(v, elem) ==
    CASE v = "front_light"  /\ elem = "main_image" -> ARTWORK
      [] v = "front_light"  /\ elem = "title"      -> "title_dark.png"
      [] v = "front_light"  /\ elem = "wordmark"   -> "wordmark_dark.png"
      [] v = "front_dark"   /\ elem = "main_image" -> ARTWORK
      [] v = "front_dark"   /\ elem = "title"      -> "title_light.png"
      [] v = "front_dark"   /\ elem = "wordmark"   -> "wordmark_light.png"
      [] v = "back"         /\ elem = "main_image" -> ARTWORK
      [] v = "sleeve_dark"  /\ elem = "logo"       -> "logo_dark.png"
      [] v = "sleeve_light" /\ elem = "logo"       -> "logo_light.png"
      [] OTHER -> None

\* the composition of v is called and, on its own inputs, reaches its save
Composable(v) == Gate(v) /\ \E r \in OwnCompose(v) : r.write.kind # "nowrite"

\* C11: when the call returns, every layer of every output named in the map
\* was opened from the input of that output: front_light from the artwork,
\* title_dark and wordmark_dark, front_dark from the artwork, title_light and
\* wordmark_light, back from the artwork alone, sleeve_dark from logo_dark,
\* sleeve_light from logo_light; and when logo_light is None or its file is
\* missing, sleeve_light is None while each other entry is non-None exactly
\* when its own composition reaches its save and the save does not fail.
C11Theorem ==
    pc = "returned" =>
        /\ \A v \in Variants : results[v] # None =>
              LET c == written[OutPath(v)]
              IN  /\ c.kind = "canvas"
                  /\ \A i \in DOMAIN c.layers :
                        /\ InputOf(v, c.layers[i].elem) # None
                        /\ c.layers[i].src = InputOf(v, c.layers[i].elem)
                  /\ v \in {"back", "sleeve_dark", "sleeve_light"} => Len(c.layers) = 1
        /\ (Urls["logo_light"] = None \/ files["logo_light.png"].kind = "missing") =>
              /\ results["sleeve_light"] = None
              /\ \A v \in Variants \ {"sleeve_light"} :
                    results[v] # None <=>
                        (Composable(v) /\ io[OutPath(v)] # "write_failed")

\* logo_light.png is missing: sleeve_light is None and the other four outputs
\* are saved, front_light with its title and wordmark opened from the dark
\* rasters and front_dark from the light ones
C11Witness ==
    /\ pc = "returned"
    /\ Urls["logo_light"] # None /\ files["logo_light.png"].kind = "missing"
    /\ results["sleeve_light"] = None
    /\ \A v \in Variants \ {"sleeve_light"} : results[v] = OutPath(v)
    /\ Len(written[OutPath("front_light")].layers) = 3
    /\ written[OutPath("front_light")].layers[2].src = "title_dark.png"
    /\ written[OutPath("front_dark")].layers[3].src = "wordmark_light.png"
    /\ written[OutPath("sleeve_dark")].layers[1].src = "logo_dark.png"

\* the inputs without which the composition of v is not called or returns
\* False before its save
RequiredInputsAbsent(v) ==
    CASE v = "back" -> files[call.main_image_path].kind = "missing"
      [] v \in {"sleeve_dark", "sleeve_light"} ->
            \/ ~Gate(v)
            \/ files[InputOf(v, "logo")].kind = "missing"
      [] OTHER -> ~Gate(v)

\* C12: once the map exists, every non-None entry for key v is the string
\* output_dir/slug/slug_v.png, the file at that path is a canvas of the
\* template of v and its save in this call ended well; when the call returns,
\* the entry of a composition whose required inputs were absent or whose save
\* did not complete is None.
C12Theorem ==
    pc # "start" =>
        \A v \in Variants :
            LET path == call.output_dir \o "/" \o call.slug \o "/" \o
                        call.slug \o "_" \o v \o ".png"
            IN  /\ results[v] # None =>
                      /\ results[v] = path
                      /\ v \in attempted
                      /\ io[path] = "ok"
                      /\ written[path].kind = "canvas"
                      /\ written[path].size =
                            IF v \in {"sleeve_dark", "sleeve_light"}
                            THEN <<CANVAS_TEMPLATES.sleeve.width, CANVAS_TEMPLATES.sleeve.height>>
                            ELSE <<CANVAS_TEMPLATES.main.width, CANVAS_TEMPLATES.main.height>>
                /\ (pc = "returned" /\ (RequiredInputsAbsent(v) \/ io[path] # "ok")) =>
                      results[v] = None

\* the call returned a map with a saved back, a front_dark whose write was
\* cut short and a sleeve_dark whose logo is missing
C12Witness ==
    /\ pc = "returned"
    /\ results["back"] = "artifacts/slug/slug_back.png"
    /\ written["artifacts/slug/slug_back.png"].kind = "canvas"
    /\ io[OutPath("front_dark")] = "write_failed" /\ results["front_dark"] = None
    /\ written[OutPath("front_dark")].kind = "partial"
    /\ Urls["logo_dark"] # None /\ files["logo_dark.png"].kind = "missing"
    /\ results["sleeve_dark"] = None

---------------------------------------------------------------------------
(* The five outputs as state machines *)

Terminal == {"succeeded", "skipped_missing_input", "failed_io"}

\* the block of output v is behind the method's position
BlockDone(v) ==
    LET rank == [p \in {"start", "raised"} \cup Variants \cup {"summary", "returned"} |->
                   CASE p = "front_light" -> 1 [] p = "front_dark" -> 2 [] p = "back" -> 3
                     [] p = "sleeve_dark" -> 4 [] p = "sleeve_light" -> 5
                     [] p = "summary" -> 6 [] p = "returned" -> 7 [] OTHER -> 0]
    IN  rank[pc] > rank[v]

\* where output v stands: its block not yet run, or how its block ended
Status(v) ==
    IF ~BlockDone(v) THEN "not_started"
    ELSE IF results[v] # None THEN "succeeded"
    ELSE IF v \notin attempted \/ RequiredInputsAbsent(v) THEN "skipped_missing_input"
    ELSE "failed_io"

\* C13 as claimed: in every step of a call an output leaves not_started only
\* through the attempt of its own block and then stands in exactly one of
\* succeeded, skipped_missing_input, failed_io, an output in one of these
\* three never leaves it, and when the call ends, by return or by an
\* exception, all five outputs are in one of the three.
C13Claim ==
    [][ /\ \A v \in Variants :
             /\ Status(v) \in Terminal => Status(v)' = Status(v)
             /\ (Status(v) = "not_started" /\ Status(v)' # "not_started") =>
                    (pc = v /\ Status(v)' \in Terminal)
        /\ pc' \in {"returned", "raised"} => \A v \in Variants : Status(v)' \in Terminal
      ]_vars

---------------------------------------------------------------------------
(* The layers of compose_front *)

\* the place of a layer in the z-order of the front, bottom first
ZRank(elem) == CASE elem = "main_image" -> 1 [] elem = "title" -> 2
                 [] elem = "wordmark" -> 3 [] OTHER -> 0

\* the front rule of an element on the 3600x4800 canvas: its width and its top
FrontRule(elem) ==
    CASE elem = "main_image" -> [w |-> 1620, top |-> 960, path |-> call.main_image_path]
      [] elem = "title"      -> [w |-> 2160, top |-> 2640, path |-> call.title_image_path]
      [] OTHER               -> [w |-> 900,  top |-> 3600, path |-> call.wordmark_image_path]

Overlap(a, b) ==
    /\ a.pos[1] < b.pos[1] + b.size[1] /\ b.pos[1] < a.pos[1] + a.size[1]
    /\ a.pos[2] < b.pos[2] + b.size[2] /\ b.pos[2] < a.pos[2] + a.size[2]

\* C14: on every canvas saved by compose_front the layers lie in the order
\* artwork, title, wordmark, bottom to top, and each layer's size and
\* position follow from its own raster and its own rule alone: the width is
\* the rule's share of the canvas width, the height keeps the aspect ratio
\* of the layer's own file, and the position is the rule's top and the
\* horizontal centre of that layer, clamped for that layer's size.
C14Theorem ==
    (FrontCallReturned /\ SavedCanvas) =>
        LET ls == written[OUT].layers
        IN  /\ \A i, j \in LayerIndices : i < j => ZRank(ls[i].elem) < ZRank(ls[j].elem)
            /\ \A i \in LayerIndices :
                  LET l    == ls[i]
                      rule == FrontRule(l.elem)
                      own  == files[rule.path].size
                  IN  /\ ZRank(l.elem) > 0
                      /\ l.src = rule.path
                      /\ l.size[1] = rule.w
                      /\ l.size[2] \in FloatMulTrunc(rule.w, own[2], own[1])
                      /\ l.pos[1] = Max(75, Min((3600 - rule.w) \div 2, 3600 - rule.w - 75))
                      /\ l.pos[2] = Max(75, Min(rule.top, 4800 - l.size[2] - 75))

\* a saved front with three layers in which the title lies over the artwork
\* and the wordmark over the title
C14Witness ==
    /\ FrontCallReturned /\ SavedCanvas /\ ret
    /\ LayerNames = <<"main_image", "title", "wordmark">>
    /\ Overlap(written[OUT].layers[1], written[OUT].layers[2])
    /\ Overlap(written[OUT].layers[2], written[OUT].layers[3])
    /\ files[call.title_image_path].size # files[call.main_image_path].size

---------------------------------------------------------------------------
(* Title renderer: src/utils/font_renderer.py.                             *)
(*                                                                         *)
(* A text is the sequence of the advance widths font.getbbox(char)[2] of   *)
(* its characters under the font in use.  Floats are kept exact: the       *)
(* curvature in hundredths, the radius and the angles as reduced fractions *)
(* <<numerator, denominator>>.  A glyph's paste position int(x - font_size)*)
(* , int(y - font_size) is kept as the point `at` it has at angle 0 and    *)
(* the arc (radius, direction) that with the angle displaces it: sin and   *)
(* cos are not evaluated except at 0, where the displacement is exactly 0. *)

\* titles of up to MaxText characters
MaxText == 3
\* each measured 0..MaxAdvance pixels wide by the font
MaxAdvance == 2

\* LIBRE_BODONI_FONT['regular'], font_size = 180, LIBRE_BODONI_FONT['curve']
\* in hundredths, image_size's default
FONT_PATH == "assets/fonts/Libre_Bodoni/static/LibreBodoni-Regular.ttf"
FONT_SIZE == 180
CURVE == 0 - 60
TITLE_SIZE == <<2400, 800>>
\* CONTRAST_COLORS
DARK_TEXT == "#111111"
LIGHT_TEXT == "#FFFFFF"
\* math.pi in units of 1/10000
PI10K == 31416

FontFile == [kind |-> "font", size |-> <<0, 0>>]

Abs(n) == IF n < 0 THEN 0 - n ELSE n

\* the fraction n/d, d > 0, reduced
Ratio(n, d) == LET g == GCD(Abs(n), d) IN <<n \div g, d \div g>>

RECURSIVE SumSeq(_)
SumSeq(sq) == IF sq = <<>> THEN 0 ELSE Head(sq) + SumSeq(Tail(sq))

\* the displacement of a glyph whose angle is 0: none
NoArc == [radius |-> <<0, 1>>, sign |-> 0]
NoImage == [kind |-> "none", size |-> <<0, 0>>, layers |-> <<>>]

MutDrawNoEpsilon(fs, text, font_path, font_size, image_size, curve_strength, color) ==
    LET center_x   == image_size[1] \div 2
        center_y   == image_size[2] \div 2 + 50
        font       == IF fs[font_path].kind = "font" THEN "truetype" ELSE "default"
        text_width == SumSeq(text)
        denom      == (2 * PI10K * Abs(curve_strength)) \div 100
        sign       == IF curve_strength < 0 THEN 0 - 1 ELSE 1
        current_x2(i) == 2 * SumSeq(SubSeq(text, 1, i - 1)) - text_width
    IN  IF denom = 0 \/ (Len(text) > 0 /\ text_width = 0)
        THEN [raised |-> TRUE, img |-> NoImage]
        ELSE LET radius == Ratio(text_width * 10000, denom)
                 glyph(i) ==
                    LET angle == Ratio((current_x2(i) + text[i]) * radius[2], 2 * radius[1])
                    IN  [char |-> i, width |-> text[i], fill |-> color, font |-> font,
                         angle |-> angle,
                         at |-> <<center_x - font_size, center_y - font_size>>,
                         arc |-> IF angle[1] = 0 THEN NoArc
                                 ELSE [radius |-> radius, sign |-> sign]]
             IN  [raised |-> FALSE,
                  img |-> [kind |-> "title", size |-> image_size,
                           layers |-> [i \in 1..Len(text) |-> glyph(i)]]]

(* draw_curved_text: the font is loaded or replaced by the default font;   *)
(* radius = text_width / (2*pi*|curve_strength| if |curve_strength| > 0    *)
(* else 0.01); every character is drawn on its own tile, rotated by        *)
(* angle = (current_x + char_width / 2) / radius and composited at         *)
(* int(center_x + radius*sin(angle) - font_size),                          *)
(* int(center_y -/+ radius*(1 - cos(angle)) - font_size).  A radius of 0.0 *)
(* makes the first division raise ZeroDivisionError.                       *)
draw_curved_text(fs, text, font_path, font_size, image_size, curve_strength, color) ==
    LET center_x   == image_size[1] \div 2
        center_y   == image_size[2] \div 2 + 50
        font       == IF fs[font_path].kind = "font" THEN "truetype" ELSE "default"
        text_width == SumSeq(text)
        denom      == IF Abs(curve_strength) > 0
                      THEN (2 * PI10K * Abs(curve_strength)) \div 100
                      ELSE 100
        radius     == Ratio(text_width * 10000, denom)
        sign       == IF curve_strength < 0 THEN 0 - 1 ELSE 1
        \* twice current_x before character i
        current_x2(i) == 2 * SumSeq(SubSeq(text, 1, i - 1)) - text_width
        glyph(i) ==
            LET angle == Ratio((current_x2(i) + text[i]) * radius[2], 2 * radius[1])
            IN  [char |-> i, width |-> text[i], fill |-> color, font |-> font,
                 angle |-> angle,
                 at |-> <<center_x - font_size, center_y - font_size>>,
                 arc |-> IF angle[1] = 0 THEN NoArc
                         ELSE [radius |-> radius, sign |-> sign]]
    IN  IF Len(text) > 0 /\ radius[1] = 0
        THEN [raised |-> TRUE, img |-> NoImage]
        ELSE [raised |-> FALSE,
              img |-> [kind |-> "title", size |-> image_size,
                       layers |-> [i \in 1..Len(text) |-> glyph(i)]]]

\* os.path.join(output_dir, f"{slug}_title_{variant}.png")
TitlePath(output_dir, slug, variant) ==
    output_dir \o "/" \o slug \o "_title_" \o variant \o ".png"

\* return {'dark': None, 'light': None} with nothing written
render_failed ==
    [st |-> "returned", dark |-> None, light |-> None,
     wdark |-> NoWrite, wlight |-> NoWrite, iodark |-> "none", iolight |-> "none"]

MutRenderLightFlat(fs, dir_ok, title, slug, output_dir, saves) ==
    LET img_dark  == draw_curved_text(fs, title, FONT_PATH, FONT_SIZE, TITLE_SIZE,
                                      CURVE, DARK_TEXT)
        img_light == draw_curved_text(fs, title, FONT_PATH, FONT_SIZE, TITLE_SIZE,
                                      0, LIGHT_TEXT)
    IN  IF ~dir_ok THEN { [render_failed EXCEPT !.st = "raised"] }
        ELSE IF fs[FONT_PATH].kind = "missing" THEN { render_failed }
        ELSE IF img_dark.raised \/ img_light.raised THEN { render_failed }
        ELSE { IF sd # "ok"
               THEN [render_failed EXCEPT !.wdark = Partial, !.iodark = sd]
               ELSE IF sl # "ok"
               THEN [render_failed EXCEPT !.wdark = img_dark.img, !.iodark = "ok",
                                          !.wlight = Partial, !.iolight = sl]
               ELSE [st |-> "returned",
                     dark |-> TitlePath(output_dir, slug, "dark"),
                     light |-> TitlePath(output_dir, slug, "light"),
                     wdark |-> img_dark.img, wlight |-> img_light.img,
                     iodark |-> "ok", iolight |-> "ok"] :
               sd \in saves, sl \in saves }

(* render_title_with_libre_bodoni: os.makedirs(output_dir) before the try  *)
(* (its failure leaves the function); inside the try the font file is      *)
(* looked up, the title is drawn in the dark and in the light colour and   *)
(* both images are saved; every exception in the try gives                 *)
(* {'dark': None, 'light': None}.  slug is generate_kebab_slug(title).     *)
(* The set of outcomes when each save ends in one of `saves`.              *)
render_title_with_libre_bodoni(fs, dir_ok, title, slug, output_dir, saves) ==
    LET img_dark  == draw_curved_text(fs, title, FONT_PATH, FONT_SIZE, TITLE_SIZE,
                                      CURVE, DARK_TEXT)
        img_light == draw_curved_text(fs, title, FONT_PATH, FONT_SIZE, TITLE_SIZE,
                                      CURVE, LIGHT_TEXT)
    IN  IF ~dir_ok THEN { [render_failed EXCEPT !.st = "raised"] }
        ELSE IF fs[FONT_PATH].kind = "missing" THEN { render_failed }
        ELSE IF img_dark.raised \/ img_light.raised THEN { render_failed }
        ELSE { IF sd # "ok"
               THEN [render_failed EXCEPT !.wdark = Partial, !.iodark = sd]
               ELSE IF sl # "ok"
               THEN [render_failed EXCEPT !.wdark = img_dark.img, !.iodark = "ok",
                                          !.wlight = Partial, !.iolight = sl]
               ELSE [st |-> "returned",
                     dark |-> TitlePath(output_dir, slug, "dark"),
                     light |-> TitlePath(output_dir, slug, "light"),
                     wdark |-> img_dark.img, wlight |-> img_light.img,
                     iodark |-> "ok", iolight |-> "ok"] :
               sd \in saves, sl \in saves }

---------------------------------------------------------------------------
(* SpecTitle: one direct call of draw_curved_text, or one call of          *)
(* render_title_with_libre_bodoni, on a text and a font file drawn in Init *)

Texts == UNION { [1..n -> 0..MaxAdvance] : n \in 0..MaxText }
Curves == {CURVE, 0, 60}
DARK_PATH  == TitlePath(OUTPUT_DIR, SLUG, "dark")
LIGHT_PATH == TitlePath(OUTPUT_DIR, SLUG, "light")

TitleCall(op, text, curve_strength, color) ==
    [op |-> op, text |-> text, font_path |-> FONT_PATH, font_size |-> FONT_SIZE,
     image_size |-> TITLE_SIZE, curve_strength |-> curve_strength, color |-> color,
     slug |-> SLUG, output_dir |-> OUTPUT_DIR]

InitTitle ==
    /\ files \in [{FONT_PATH} -> {Missing, Corrupt, FontFile}]
    /\ \/ /\ \E text \in Texts, c \in Curves, color \in {DARK_TEXT, LIGHT_TEXT} :
                call = TitleCall("draw_curved_text", text, c, color)
          /\ dirOK = TRUE
       \/ /\ \E text \in Texts :
                call = TitleCall("render_title_with_libre_bodoni", text, CURVE, DARK_TEXT)
          /\ dirOK \in BOOLEAN
    /\ written = [p \in {DARK_PATH, LIGHT_PATH} |-> Absent]
    /\ io = [p \in {DARK_PATH, LIGHT_PATH} |-> "none"]
    /\ pc = "called"
    /\ ret = FALSE
    /\ results = NoResults
    /\ attempted = {}
    /\ value = NoValue

DrawCurvedText ==
    /\ pc = "called" /\ call.op = "draw_curved_text"
    /\ LET r == draw_curved_text(files, call.text, call.font_path, call.font_size,
                                 call.image_size, call.curve_strength, call.color)
       IN  /\ value' = [ok |-> ~r.raised, v |-> r.img]
           /\ pc' = IF r.raised THEN "raised" ELSE "returned"
    /\ UNCHANGED <<files, written, dirOK, call, ret, results, attempted, io>>

RenderTitle ==
    /\ pc = "called" /\ call.op = "render_title_with_libre_bodoni"
    /\ \E o \in render_title_with_libre_bodoni(files, dirOK, call.text, call.slug,
                                               call.output_dir, WorkflowSaves) :
          /\ results' = IF o.st = "raised" THEN results
                        ELSE [dark |-> o.dark, light |-> o.light]
          /\ written' = [p \in {DARK_PATH, LIGHT_PATH} |->
                           LET w == IF p = DARK_PATH THEN o.wdark ELSE o.wlight
                           IN  IF w.kind = "nowrite" THEN written[p] ELSE w]
          /\ io' = [p \in {DARK_PATH, LIGHT_PATH} |->
                      IF p = DARK_PATH THEN o.iodark ELSE o.iolight]
          /\ pc' = o.st
    /\ UNCHANGED <<files, dirOK, call, ret, attempted, value>>

NextTitle == DrawCurvedText \/ RenderTitle

SpecTitle == InitTitle /\ [][NextTitle]_vars

---------------------------------------------------------------------------
(* Properties of the title renderer (SpecTitle) *)

RenderCalled == call.op = "render_title_with_libre_bodoni" /\ pc # "called"
DrawCalled == call.op = "draw_curved_text" /\ pc # "called"

\* the text can be drawn: it is empty or the font measures a positive width
Drawable(text) == Len(text) = 0 \/ SumSeq(text) > 0

\* C15 as claimed: when the font file is missing or cannot be loaded, and
\* the output directory can be made, the text can be drawn and no save
\* fails, render_title_with_libre_bodoni returns non-None dark and light
\* paths and both rasters are drawn with the fallback font.
C15Claim ==
    (/\ RenderCalled
     /\ files[FONT_PATH].kind # "font"
     /\ dirOK /\ Drawable(call.text)
     /\ \A p \in {DARK_PATH, LIGHT_PATH} : io[p] # "write_failed")
    => /\ pc = "returned"
       /\ results.dark = DARK_PATH /\ results.light = LIGHT_PATH
       /\ \A p \in {DARK_PATH, LIGHT_PATH} :
             /\ written[p].kind = "title"
             /\ \A i \in DOMAIN written[p].layers : written[p].layers[i].font = "default"

\* C16 as claimed: draw_curved_text does not raise when the total width of
\* the text is zero, be the text empty or made of characters of zero width.
C16Claim ==
    (DrawCalled /\ SumSeq(call.text) = 0) => (pc = "returned" /\ value.ok)

\* what fixes where a glyph is pasted: its point at angle 0, its angle and
\* the arc the angle is taken on
Position(g) == [at |-> g.at, angle |-> g.angle, arc |-> g.arc]

\* the same text drawn with the same font and colour at curvature -0.6
AtShippedCurve ==
    draw_curved_text(files, call.text, call.font_path, call.font_size,
                     call.image_size, CURVE, call.color).img

FlatCall ==
    /\ DrawCalled /\ call.curve_strength = 0
    /\ Len(call.text) > 0 /\ SumSeq(call.text) > 0

\* twice the distance of the centre of character i from the middle of the text
Offset2(text, i) == 2 * SumSeq(SubSeq(text, 1, i - 1)) + text[i] - SumSeq(text)

\* C17 as claimed: draw_curved_text with curve_strength 0 on a non-empty
\* text of positive width returns without raising, and every glyph's
\* position differs from the position the same glyph has at curvature -0.6.
C17Original ==
    FlatCall =>
        /\ pc = "returned" /\ value.ok
        /\ \A i \in DOMAIN value.v.layers :
              Position(value.v.layers[i]) # Position(AtShippedCurve.layers[i])

\* C17 as amended: the call returns without raising; the radius is the text
\* width divided by 0.01, so a glyph whose centre is off the middle of the
\* text gets the finite non-zero angle offset / (100 * text_width), which
\* differs from its non-zero angle at curvature -0.6; a glyph whose centre
\* is the middle of the text (the only glyph of a one-character text) gets
\* angle 0 and the same position at both curvatures.
C17Amended ==
    FlatCall =>
        /\ pc = "returned" /\ value.ok
        /\ Len(value.v.layers) = Len(call.text)
        /\ \A i \in DOMAIN value.v.layers :
              LET g  == value.v.layers[i]
                  r  == AtShippedCurve.layers[i]
                  s2 == Offset2(call.text, i)
                  tw == SumSeq(call.text)
              IN  IF s2 = 0
                  THEN /\ g.angle = <<0, 1>>
                       /\ g.at = <<1020, 270>>
                       /\ Position(g) = Position(r)
                  ELSE /\ g.arc.radius = <<100 * tw, 1>>
                       /\ g.angle[2] > 0
                       /\ g.angle[1] * (200 * tw) = s2 * g.angle[2]
                       /\ r.angle[1] # 0
                       /\ g.angle # r.angle

\* a three-character text drawn at curvature 0: the middle glyph is centred
\* and keeps its position, the outer ones get non-zero angles
C17Witness ==
    /\ FlatCall /\ pc = "returned" /\ value.ok
    /\ Len(call.text) = 3
    /\ Offset2(call.text, 2) = 0 /\ value.v.layers[2].angle[1] = 0
    /\ Position(value.v.layers[2]) = Position(AtShippedCurve.layers[2])
    /\ value.v.layers[1].angle[1] < 0 /\ value.v.layers[3].angle[1] > 0

\* the geometry of an image: what fixes every glyph but its colour
Geometry(img) ==
    [size |-> img.size,
     glyphs |-> [i \in DOMAIN img.layers |->
                   [width |-> img.layers[i].width, font |-> img.layers[i].font,
                    position |-> Position(img.layers[i])]]]

\* C18: when render_title_with_libre_bodoni returns its two paths, the dark
\* and the light raster have the same size and, glyph for glyph, the same
\* width, font, position and angle, and differ in the fill colour alone; and
\* the geometry of an image returned by draw_curved_text is the one it
\* returns for the other colour.
C18Theorem ==
    /\ (RenderCalled /\ pc = "returned" /\ results.dark # None /\ results.light # None) =>
          LET d == written[results.dark]
              l == written[results.light]
          IN  /\ d.kind = "title" /\ l.kind = "title"
              /\ Len(d.layers) = Len(call.text)
              /\ Geometry(d) = Geometry(l)
              /\ \A i \in DOMAIN d.layers :
                    d.layers[i].fill = DARK_TEXT /\ l.layers[i].fill = LIGHT_TEXT
    /\ (DrawCalled /\ pc = "returned") =>
          \A color \in {DARK_TEXT, LIGHT_TEXT} :
             Geometry(value.v) =
                Geometry(draw_curved_text(files, call.text, call.font_path, call.font_size,
                                          call.image_size, call.curve_strength, color).img)

\* both rasters of a three-character title were saved, with glyphs off the
\* middle of the text
C18Witness ==
    /\ RenderCalled /\ pc = "returned"
    /\ results.dark = DARK_PATH /\ results.light = LIGHT_PATH
    /\ Len(written[DARK_PATH].layers) = 3
    /\ written[DARK_PATH].layers[1].angle[1] # 0
    /\ written[DARK_PATH].layers[1].fill # written[LIGHT_PATH].layers[1].fill
    /\ written[DARK_PATH].layers[1].angle = written[LIGHT_PATH].layers[1].angle

---------------------------------------------------------------------------
(* Orchestrator: src/main_onlyone.py.  SpecFlow is run_workflow for one    *)
(* valid image, from the asset library to the compositions of              *)
(* process_single_image, whose create_all_variants_for_product call runs   *)
(* by the actions of Spec.                                                 *)

StaticKeys == {"wordmark_dark", "wordmark_light", "logo_dark", "logo_light"}

\* WORDMARK_ASSETS, LOGO_BLACK_PATH, LOGO_WHITE_PATH
LocalPath(k) ==
    CASE k = "wordmark_dark"  -> "assets/wordmarks/too_dark.png"
      [] k = "wordmark_light" -> "assets/wordmarks/too_light.png"
      [] k = "logo_dark"      -> "generate/logo_black.png"
      [] OTHER                -> "generate/logo_white.png"

\* the link Imgur returns for an uploaded asset
Url(k) == "https://i.imgur.com/onlyone_" \o k \o ".png"

\* the raster of a static asset
StaticImage(k) ==
    IF k \in {"wordmark_dark", "wordmark_light"} THEN <<800, 300>> ELSE <<500, 1000>>

FlowPaths ==
    {ARTWORK, DARK_PATH, LIGHT_PATH} \cup { LocalPath(k) : k \in StaticKeys }
        \cup { Url(k) : k \in StaticKeys }

NoAssets == [k \in StaticKeys |-> None]

\* the two dictionaries of run_workflow; a key a dictionary lacks is None
Library(paths, urls) ==
    [ok |-> TRUE, v |-> [static_assets_paths |-> paths, static_assets_urls |-> urls]]

InitFlow ==
    /\ \E present \in SUBSET StaticKeys :
          files = [p \in FlowPaths |->
                     IF p = ARTWORK THEN ImageFile(<<2000, 2000>>)
                     ELSE IF \E k \in present : p = LocalPath(k)
                     THEN ImageFile(StaticImage(CHOOSE k \in present : p = LocalPath(k)))
                     ELSE Missing]
    /\ dirOK \in BOOLEAN
    /\ call = [op |-> "run_workflow", slug |-> SLUG, main_image_path |-> ARTWORK,
               asset_urls |-> [k \in AssetKeys |-> None], output_dir |-> OUTPUT_DIR]
    /\ written = [p \in OutPaths |-> Absent]
    /\ io = [p \in OutPaths |-> "none"]
    /\ pc = "setup"
    /\ ret = FALSE
    /\ results = NoResults
    /\ attempted = {}
    /\ value = Library(NoAssets, NoAssets)

\* setup_asset_library: the assets whose local file exists, by key
SetupAssetLibrary ==
    /\ pc = "setup"
    /\ value' = Library([k \in StaticKeys |->
                           IF files[LocalPath(k)].kind # "missing" THEN LocalPath(k)
                           ELSE None],
                        NoAssets)
    /\ pc' = "upload"
    /\ UNCHANGED <<files, written, dirOK, call, ret, results, attempted, io>>

\* upload_static_assets: every asset of the library is uploaded and its key
\* gets the URL; an upload that raises leaves its key out.  run_workflow
\* stops when no URL came back.
UploadStaticAssets ==
    /\ pc = "upload"
    /\ \E uploaded \in SUBSET { k \in StaticKeys : value.v.static_assets_paths[k] # None } :
          /\ value' = Library(value.v.static_assets_paths,
                              [k \in StaticKeys |-> IF k \in uploaded THEN Url(k) ELSE None])
          /\ pc' = IF uploaded = {} THEN "stopped" ELSE "process"
    /\ UNCHANGED <<files, written, dirOK, call, ret, results, attempted, io>>

\* process_single_image(image_path, static_assets_urls, ...), steps 1 to 5:
\* a failing step raises and ends the image; otherwise both title rasters
\* are on disk and create_all_variants_for_product is called with
\* asset_paths built from title_result and static_assets
ProcessSingleImage ==
    /\ pc = "process"
    /\ \/ /\ pc' = "failed"
          /\ UNCHANGED <<files, call>>
       \/ /\ files' = [files EXCEPT ![DARK_PATH] = ImageFile(TITLE_SIZE),
                                    ![LIGHT_PATH] = ImageFile(TITLE_SIZE)]
          /\ call' = [op |-> "create_all_variants_for_product", slug |-> SLUG,
                      main_image_path |-> ARTWORK,
                      asset_urls |-> [k \in AssetKeys |->
                                        CASE k = "title_dark" -> DARK_PATH
                                          [] k = "title_light" -> LIGHT_PATH
                                          [] OTHER -> value.v.static_assets_urls[k]],
                      output_dir |-> OUTPUT_DIR]
          /\ pc' = "start"
    /\ UNCHANGED <<written, dirOK, ret, results, attempted, io, value>>

\* successful_compositions: the outputs create_all_variants_for_product
\* returned a path for
successful_compositions == { v \in Variants : results[v] # None }

MutCheckTwoEnough ==
    /\ pc \in {"returned", "raised"} /\ value.ok
    /\ pc' = IF pc = "returned" /\ Cardinality(successful_compositions) >= 2
             THEN "step6" ELSE "failed"
    /\ UNCHANGED <<files, written, dirOK, call, ret, results, attempted, io, value>>

\* the end of step 5: with three or more outputs 'compositions_created' is
\* recorded and step 6 follows; with fewer, or when the composer raised,
\* the exception ends the image
CheckCompositions ==
    /\ pc \in {"returned", "raised"} /\ value.ok
    /\ pc' = IF pc = "returned" /\ Cardinality(successful_compositions) >= 3
             THEN "step6" ELSE "failed"
    /\ UNCHANGED <<files, written, dirOK, call, ret, results, attempted, io, value>>

NextFlow ==
    \/ SetupAssetLibrary
    \/ UploadStaticAssets
    \/ ProcessSingleImage
    \/ Next
    \/ CheckCompositions

SpecFlow == InitFlow /\ [][NextFlow]_vars

\* the output a static asset goes into
OutputOf(k) ==
    CASE k = "wordmark_dark" -> "front_light" [] k = "wordmark_light" -> "front_dark"
      [] k = "logo_dark" -> "sleeve_dark" [] OTHER -> "sleeve_light"

\* C19 as claimed: the wordmark and logo values handed to
\* create_all_variants_for_product are None or the local paths whose files
\* setup_asset_library found, and when the call returns, every static asset
\* whose file exists locally is in its output (the wordmark as a layer of
\* its front, the logo as its sleeve) unless the save of that output failed.
C19Claim ==
    (call.op = "create_all_variants_for_product") =>
        /\ \A k \in StaticKeys :
              call.asset_urls[k] # None =>
                  /\ call.asset_urls[k] = LocalPath(k)
                  /\ files[LocalPath(k)].kind # "missing"
        /\ pc = "returned" =>
              \A k \in StaticKeys :
                 (/\ files[LocalPath(k)].kind = "image"
                  /\ io[OutPath(OutputOf(k))] # "write_failed") =>
                     /\ results[OutputOf(k)] # None
                     /\ \E i \in DOMAIN written[OutPath(OutputOf(k))].layers :
                           written[OutPath(OutputOf(k))].layers[i].src = LocalPath(k)

---------------------------------------------------------------------------
(* SpecTwice: create_all_variants_for_product called twice with the same   *)
(* arguments on the same input files; the second call finds the files the  *)
(* first one wrote.                                                        *)

\* how the first call ended, the map it returned, the files it left and how
\* its saves ended
FirstCall(end, map, disk, saves) == [ok |-> TRUE, v |-> <<end, map, disk, saves>>]

\* the caller calls again with the arguments of the first call
CallAgain ==
    /\ pc \in {"returned", "raised"} /\ ~value.ok
    /\ value' = FirstCall(pc, results, written, io)
    /\ pc' = "start"
    /\ results' = NoResults
    /\ attempted' = {}
    /\ io' = [p \in OutPaths |-> "none"]
    /\ ret' = FALSE
    /\ UNCHANGED <<files, written, dirOK, call>>

NextTwice == Next \/ CallAgain

SpecTwice == Init /\ [][NextTwice]_vars

SecondCallEnded == pc \in {"returned", "raised"} /\ value.ok

\* the scaled height of the layer is an integer the model's float arithmetic
\* leaves two-valued (FloatMulTrunc); the program's arithmetic gives the same
\* one of the two in both calls
HeightTwoValued(l) ==
    Cardinality(FloatMulTrunc(l.size[1], files[l.src].size[2], files[l.src].size[1])) > 1

SameLayer(a, b) ==
    /\ a.elem = b.elem /\ a.src = b.src
    /\ a.size[1] = b.size[1] /\ a.pos[1] = b.pos[1]
    /\ (a.size = b.size /\ a.pos = b.pos) \/ (HeightTwoValued(a) /\ HeightTwoValued(b))

SameFile(a, b) ==
    /\ a.kind = b.kind /\ a.size = b.size
    /\ Len(a.layers) = Len(b.layers)
    /\ \A i \in DOMAIN a.layers : SameLayer(a.layers[i], b.layers[i])

---------------------------------------------------------------------------
(* Properties of calculate_position (SpecGeom) *)

Positioned == pc = "returned" /\ call.op = "calculate_position"

\* C21: calculate_position returns y = floor(canvas_h * top_percent / 100)
\* when the rule has top_percent and floor((canvas_h - elem_h) / 2)
\* otherwise; x = floor((canvas_w - elem_w) / 2) for 'center' and for an
\* alignment it does not know, floor(canvas_w / 10) for 'left', and
\* floor(9 * canvas_w / 10) - elem_w for 'right', the right edge of the
\* element then lying at nine tenths of the canvas width.
C21Theorem ==
    Positioned =>
        LET W == call.canvas_size[1]
            H == call.canvas_size[2]
            w == call.element_size[1]
            h == call.element_size[2]
            x == value.v[1]
            y == value.v[2]
        IN  /\ value.ok
            /\ IF "top_percent" \in DOMAIN call.position_config
               THEN /\ 100 * y <= H * call.position_config.top_percent
                    /\ H * call.position_config.top_percent < 100 * (y + 1)
               ELSE /\ 2 * y <= H - h /\ H - h <= 2 * y + 1
            /\ call.alignment = "left" => (10 * x <= W /\ W < 10 * (x + 1))
            /\ call.alignment = "right" =>
                  (10 * (x + w) <= 9 * W /\ 9 * W < 10 * (x + w + 1))
            /\ call.alignment \notin {"left", "right"} =>
                  (2 * x <= W - w /\ W - w <= 2 * x + 1)

\* a right-aligned element on the main canvas, centred vertically for want
\* of a top_percent: its right edge is at 3240, 360 pixels from the edge
C21Witness ==
    /\ Positioned /\ call.alignment = "right"
    /\ call.canvas_size = <<3600, 4800>> /\ call.element_size[1] > 0
    /\ "top_percent" \notin DOMAIN call.position_config
    /\ value.v[1] + call.element_size[1] = 3240
    /\ 2 * value.v[2] + call.element_size[2] \in {4799, 4800}

---------------------------------------------------------------------------
(* The shipped numbers (Spec) *)

\* front_light was composed from an artwork of 2000x2000, a title of
\* 2400x800 and a wordmark of 800x300, and the disk took the write
ShippedFrontLight ==
    /\ "front_light" \in attempted
    /\ files[ARTWORK] = ImageFile(<<2000, 2000>>)
    /\ files[AssetPath("title_dark")] = ImageFile(<<2400, 800>>)
    /\ files[AssetPath("wordmark_dark")] = ImageFile(<<800, 300>>)
    /\ io[OutPath("front_light")] # "write_failed"

\* the layer's bounding box lies inside [75, 3525] x [75, 4725]
InsidePrintArea(l) ==
    /\ 75 <= l.pos[1] /\ l.pos[1] + l.size[1] <= 3525
    /\ 75 <= l.pos[2] /\ l.pos[2] + l.size[2] <= 4725

\* C22: with the shipped templates and front rules, and an artwork of
\* 2000x2000, a title of 2400x800 and a wordmark of 800x300, compose_front
\* for front_light succeeds, the saved canvas is 3600x4800 and carries three
\* layers, each of non-zero size and inside [75, 3525] x [75, 4725].
C22Theorem ==
    ShippedFrontLight =>
        LET out == written[OutPath("front_light")]
        IN  /\ results["front_light"] = OutPath("front_light")
            /\ out.kind = "canvas"
            /\ out.size = <<3600, 4800>>
            /\ Len(out.layers) = 3
            /\ \A i \in 1..Len(out.layers) :
                  /\ out.layers[i].size[1] > 0 /\ out.layers[i].size[2] > 0
                  /\ InsidePrintArea(out.layers[i])

\* the three layers where the shipped rules put them: the artwork 1620 wide
\* at (990, 960), the title 2160 wide at (720, 2640), the wordmark 900 wide
\* at (1350, 3600)
C22Witness ==
    /\ ShippedFrontLight
    /\ written[OutPath("front_light")].kind = "canvas"
    /\ Len(written[OutPath("front_light")].layers) = 3
    /\ written[OutPath("front_light")].layers[1].size = <<1620, 1620>>
    /\ written[OutPath("front_light")].layers[1].pos = <<990, 960>>
    /\ written[OutPath("front_light")].layers[2].size[1] = 2160
    /\ written[OutPath("front_light")].layers[2].pos = <<720, 2640>>
    /\ written[OutPath("front_light")].layers[3].size = <<900, 337>>
    /\ written[OutPath("front_light")].layers[3].pos = <<1350, 3600>>

---------------------------------------------------------------------------
(* Centring of the back and sleeve compositions (SpecCompose) *)

\* compose_back or compose_sleeve returned after saving its canvas
SingleLayerSaved ==
    /\ pc = "returned" /\ call.op \in {"compose_back", "compose_sleeve"}
    /\ written[OUT].kind = "canvas" /\ Len(written[OUT].layers) = 1

\* the layer is no larger than the safe area of the canvas
WithinSafeArea(l, t) ==
    /\ l.size[1] <= t.width - 2 * t.safe_margin
    /\ l.size[2] <= t.height - 2 * t.safe_margin

\* twice the distance between the centre of the layer and that of the canvas
OffCentre2(l, t) ==
    <<Abs(2 * l.pos[1] + l.size[1] - t.width), Abs(2 * l.pos[2] + l.size[2] - t.height)>>

\* C26: compose_back places the artwork, and compose_sleeve the logo, with
\* its centre on the centre of the canvas, within one pixel on each axis,
\* whenever the resized element fits inside the safe area.
C26Claim ==
    SingleLayerSaved =>
        LET l == written[OUT].layers[1]
            t == TemplateOf(call.op)
        IN  WithinSafeArea(l, t) =>
               OffCentre2(l, t)[1] <= 2 /\ OffCentre2(l, t)[2] <= 2

---------------------------------------------------------------------------
(* src/batch_lineart.py: convert_one, the retry loop around one image edit. *)
(* call holds retries and delay (in milliseconds), value the loop state:    *)
(* the number of the next attempt, how each attempt so far ended, and the   *)
(* sleeps made so far.                                                      *)

MaxRetries == 4

\* delay, in milliseconds: none, and the default 0.8 s
Delays == {0, 800}

\* how one pass of the try block can end: image_edit raises, save_png_b64
\* raises, or both return
AttemptOutcomes == {"ok", "edit_failed", "save_failed"}

ConvertCall(retries, delay) ==
    [op |-> "convert_one", retries |-> retries, delay |-> delay]

LoopState(attempt, log, sleeps) ==
    [ok |-> TRUE, v |-> [attempt |-> attempt, log |-> log, sleeps |-> sleeps]]

InitConvert ==
    /\ \E retries \in 0..MaxRetries, delay \in Delays : call = ConvertCall(retries, delay)
    /\ files = [p \in {"in.png"} |-> ImageFile(<<1024, 1024>>)]
    /\ written = [p \in {OUT} |-> Absent]
    /\ io = [p \in {OUT} |-> "none"]
    /\ dirOK = TRUE
    /\ pc = "loop"
    /\ ret = FALSE
    /\ results = NoResults
    /\ attempted = {}
    /\ value = LoopState(1, <<>>, <<>>)

MutAttemptSleepsAfterLast ==
    /\ pc = "loop" /\ call.op = "convert_one"
    /\ value.v.attempt <= call.retries
    /\ \E o \in AttemptOutcomes :
          IF o = "ok"
          THEN /\ value' = LoopState(value.v.attempt, Append(value.v.log, o), value.v.sleeps)
               /\ written' = [written EXCEPT ![OUT] = image_new(<<1024, 1024>>)]
               /\ io' = [io EXCEPT ![OUT] = "ok"]
               /\ ret' = TRUE
               /\ pc' = "returned"
          ELSE /\ value' = LoopState(value.v.attempt + 1, Append(value.v.log, o),
                                     Append(value.v.sleeps, call.delay * value.v.attempt))
               /\ written' = IF o = "save_failed"
                             THEN [written EXCEPT ![OUT] = Partial] ELSE written
               /\ io' = [io EXCEPT ![OUT] = IF o = "save_failed" THEN "write_failed" ELSE @]
               /\ UNCHANGED <<ret, pc>>
    /\ UNCHANGED <<files, dirOK, call, results, attempted>>

\* one pass of the for body: the try block, then either return True or the
\* except branch with its sleep of delay * attempt unless this was the last
\* attempt
Attempt ==
    /\ pc = "loop" /\ call.op = "convert_one"
    /\ value.v.attempt <= call.retries
    /\ \E o \in AttemptOutcomes :
          IF o = "ok"
          THEN /\ value' = LoopState(value.v.attempt, Append(value.v.log, o), value.v.sleeps)
               /\ written' = [written EXCEPT ![OUT] = image_new(<<1024, 1024>>)]
               /\ io' = [io EXCEPT ![OUT] = "ok"]
               /\ ret' = TRUE
               /\ pc' = "returned"
          ELSE /\ value' = LoopState(value.v.attempt + 1, Append(value.v.log, o),
                                     IF value.v.attempt < call.retries
                                     THEN Append(value.v.sleeps, call.delay * value.v.attempt)
                                     ELSE value.v.sleeps)
               /\ written' = IF o = "save_failed"
                             THEN [written EXCEPT ![OUT] = Partial] ELSE written
               /\ io' = [io EXCEPT ![OUT] = IF o = "save_failed" THEN "write_failed" ELSE @]
               /\ UNCHANGED <<ret, pc>>
    /\ UNCHANGED <<files, dirOK, call, results, attempted>>

\* range(1, retries + 1) is exhausted: return False
ReturnFalse ==
    /\ pc = "loop" /\ call.op = "convert_one"
    /\ value.v.attempt > call.retries
    /\ ret' = FALSE
    /\ pc' = "returned"
    /\ UNCHANGED <<files, written, dirOK, call, results, attempted, io, value>>

NextConvert == Attempt \/ ReturnFalse

\* the loop is straight-line code: while convert_one has a step to take, it
\* takes it
SpecConvert == InitConvert /\ [][NextConvert]_vars /\ WF_vars(NextConvert)

ConvertReturned == pc = "returned" /\ call.op = "convert_one"

\* the waits delay * 1, ..., delay * n
WaitsUpTo(n) == [i \in 1..n |-> call.delay * i]

AttemptsBounded ==
    call.op = "convert_one" =>
        /\ Len(value.v.log) <= call.retries
        /\ \A i \in 1..Len(value.v.log) : value.v.log[i] = "ok" => i = Len(value.v.log)

ReturnsAsClaimed ==
    ConvertReturned =>
        /\ ret => /\ Len(value.v.log) >= 1
                  /\ value.v.log[Len(value.v.log)] = "ok"
                  /\ value.v.sleeps = WaitsUpTo(Len(value.v.log) - 1)
        /\ ~ret => /\ Len(value.v.log) = call.retries
                   /\ \A i \in 1..Len(value.v.log) : value.v.log[i] # "ok"
                   /\ value.v.sleeps = WaitsUpTo(Max(call.retries - 1, 0))

\* C30: convert_one makes at most `retries` attempts, none after a
\* successful one; it returns True right after the first success and False
\* only when all `retries` attempts failed; between two attempts it sleeps
\* delay * attempt and after the last attempt it does not sleep; and it
\* returns whatever the attempts do.
C30Theorem == [](AttemptsBounded /\ ReturnsAsClaimed) /\ <>ConvertReturned

\* three attempts by default: two failures, each followed by its sleep, then
\* a success and True
C30Witness ==
    /\ ConvertReturned /\ ret /\ call.retries = 3 /\ call.delay = 800
    /\ value.v.log = <<"edit_failed", "save_failed", "ok">>
    /\ value.v.sleeps = <<800, 1600>>

---------------------------------------------------------------------------
(* src/api/printful_api.py: the request counter of PrintfulAPI.  Time is in *)
(* whole seconds since the client was constructed.  value holds the clock,  *)
(* request_count, rate_limit_reset, and how many requests went out at each  *)
(* second.                                                                  *)

\* config_printful.py: the limit the counter is there to respect
RATE_LIMIT_CALLS == 120
RATE_LIMIT_PERIOD == 60

\* the count at which _handle_rate_limit waits, and the length of its window
RATE_LIMIT_MARGIN == 115
RATE_LIMIT_WINDOW == 60

\* no request is started after this second
MaxTime == 100

\* no request is started once this many have been sent
MaxRequests == 240

\* at most this many pauses between two requests in a run
MaxElapses == 1

\* seconds between the construction of the client and its first request
StartOffsets == {0, 59}

\* lengths of a pause between two requests
Gaps == {1, 61}

Limiter(now, request_count, rate_limit_reset, sent, elapses) ==
    [ok |-> TRUE,
     v |-> [now |-> now, request_count |-> request_count,
            rate_limit_reset |-> rate_limit_reset, sent |-> sent, elapses |-> elapses]]

NoneSent == [t \in {} |-> 0]

\* the sum of f over S
RECURSIVE SumOver(_, _)
SumOver(f, S) ==
    IF S = {} THEN 0
    ELSE LET t == CHOOSE t \in S : TRUE IN f[t] + SumOver(f, S \ {t})

\* one more request sent at second t
Sent(sent, t) ==
    [u \in DOMAIN sent \cup {t} |->
        IF u \in DOMAIN sent THEN sent[u] + (IF u = t THEN 1 ELSE 0) ELSE 1]

\* __init__: request_count = 0, rate_limit_reset = time.time() + 60; the
\* first request comes after one of StartOffsets
InitRate ==
    /\ \E start \in StartOffsets :
          value = Limiter(start, 0, 0 + RATE_LIMIT_WINDOW, NoneSent, 0)
    /\ call = [op |-> "_make_request"]
    /\ files = [p \in {} |-> Missing]
    /\ written = [p \in {} |-> Absent]
    /\ io = [p \in {} |-> "none"]
    /\ dirOK = TRUE
    /\ pc = "idle"
    /\ ret = FALSE
    /\ results = NoResults
    /\ attempted = {}

\* _handle_rate_limit on the limiter s: the window is renewed when its end
\* has passed; at 115 counted requests the call sleeps to the end of the
\* window (time.sleep taken to return on time) and starts a new count and a
\* new window; then the request is counted
handle_rate_limit(s) ==
    LET current_time == s.now
        count1 == IF current_time > s.rate_limit_reset THEN 0 ELSE s.request_count
        reset1 == IF current_time > s.rate_limit_reset
                  THEN current_time + RATE_LIMIT_WINDOW ELSE s.rate_limit_reset
        waits  == count1 >= RATE_LIMIT_MARGIN /\ reset1 - current_time > 0
        now2   == IF waits THEN reset1 ELSE current_time
    IN  [now |-> now2,
         request_count |-> (IF waits THEN 0 ELSE count1) + 1,
         rate_limit_reset |-> IF waits THEN now2 + RATE_LIMIT_WINDOW ELSE reset1]

\* _make_request: _handle_rate_limit, then the HTTP request goes out
MakeRequest ==
    /\ pc = "idle" /\ call.op = "_make_request"
    /\ value.v.now <= MaxTime
    /\ SumOver(value.v.sent, DOMAIN value.v.sent) < MaxRequests
    /\ LET s == handle_rate_limit(value.v)
       IN  value' = Limiter(s.now, s.request_count, s.rate_limit_reset,
                            Sent(value.v.sent, s.now), value.v.elapses)
    /\ UNCHANGED <<files, written, dirOK, pc, call, ret, results, attempted, io>>

\* the caller does something else between two requests
Elapse ==
    /\ pc = "idle" /\ call.op = "_make_request"
    /\ value.v.elapses < MaxElapses
    /\ \E d \in Gaps :
          /\ value.v.now + d <= MaxTime
          /\ value' = Limiter(value.v.now + d, value.v.request_count,
                              value.v.rate_limit_reset, value.v.sent, value.v.elapses + 1)
    /\ UNCHANGED <<files, written, dirOK, pc, call, ret, results, attempted, io>>

NextRate == MakeRequest \/ Elapse

SpecRate == InitRate /\ [][NextRate]_vars

\* the requests sent in the 60 seconds that start at second t
SentFrom(t) ==
    SumOver(value.v.sent,
            { u \in DOMAIN value.v.sent : t <= u /\ u < t + RATE_LIMIT_PERIOD })

\* C28: whatever the times of the requests, no 60-second interval holds more
\* than 120 requests of the client.
C28Claim ==
    call.op = "_make_request" =>
        \A t \in DOMAIN value.v.sent : SentFrom(t) <= RATE_LIMIT_CALLS

---------------------------------------------------------------------------
(* src/utils/advanced_tracker.py: OnlyOneTracker, the ledger of products.   *)
(* value holds the DataFrame as a sequence of rows, the DataFrame as it was *)
(* before the last call, and a clock for datetime.now(); call is the last   *)
(* call made and ret what it returned.                                      *)

CSV_SCHEMA ==
    {"slug", "artwork_url", "title", "title_dark_url", "title_light_url",
     "too_dark_url", "too_light_url", "front_light_url", "front_dark_url",
     "back_url", "sleeve_dark_url", "sleeve_light_url", "product_type",
     "colors_light", "colors_dark", "sizes", "price", "product_id", "store_url",
     "status", "timestamp"}

\* calls made on one tracker
MaxOps == 3

Slugs == {"cavallo-spettrale", "farfalla"}

\* slug.replace('-', ' ').title()
TitleCase(slug) == IF slug = "cavallo-spettrale" THEN "Cavallo Spettrale" ELSE "Farfalla"

Titles == {None, "Il Cavallo"}

\* asset_urls dictionaries: empty, an artwork URL, an empty URL, a key that
\* is no column, and dictionaries that carry a 'slug' entry
AssetDicts ==
    { [k \in {} |-> ""],
      [k \in {"artwork_url"} |-> "https://i.imgur.com/a.png"],
      [k \in {"artwork_url"} |-> ""],
      [k \in {"wordmark_dark"} |-> "https://i.imgur.com/w.png"] }
    \cup { [k \in {"slug"} |-> s] : s \in Slugs }

\* composition_paths dictionaries
CompositionDicts ==
    { [k \in {} |-> None],
      [k \in {"front_light", "back"} |-> IF k = "back" THEN None ELSE "front_light.png"],
      [k \in {"title"} |-> "title.png"] }

\* product_data dictionaries
ProductDicts ==
    { [k \in {} |-> None],
      [k \in {"product_id", "product_type"} |-> IF k = "product_id" THEN "357" ELSE "tshirt"] }

TrackerCall(op, slug, arg) == [op |-> op, slug |-> slug, arg |-> arg]

Ledger(df, before, clock) ==
    [ok |-> TRUE, v |-> [df |-> df, before |-> before, clock |-> clock]]

\* datetime.now().isoformat(), of the clock
isoformat(now) == "T" \o ToString(now)

\* self.df['slug'].values
SlugValues(df) == { df[i]["slug"] : i \in 1..Len(df) }

\* self.df[self.df['slug'] == slug].index[0]
RowIndex(df, slug) == CHOOSE i \in 1..Len(df) :
    df[i]["slug"] = slug /\ \A j \in 1..(i - 1) : df[j]["slug"] # slug

\* create_entry: False for a slug already in the ledger, else one more row
create_entry(df, slug, title, now) ==
    IF Len(df) > 0 /\ slug \in SlugValues(df) THEN [ret |-> FALSE, df |-> df]
    ELSE [ret |-> TRUE,
          df |-> Append(df, [c \in CSV_SCHEMA |->
                    CASE c = "slug" -> slug
                      [] c = "title" -> (IF title # None THEN title ELSE TitleCase(slug))
                      [] c = "status" -> "draft"
                      [] c = "timestamp" -> isoformat(now)
                      [] OTHER -> None])]

\* update_asset_urls: every entry of asset_urls whose key is a column and
\* whose value is not empty is written into the row of slug
update_asset_urls(df, slug, asset_urls) ==
    IF Len(df) = 0 \/ slug \notin SlugValues(df) THEN [ret |-> FALSE, df |-> df]
    ELSE LET row_idx == RowIndex(df, slug)
             updated_fields == { k \in DOMAIN asset_urls :
                                    k \in CSV_SCHEMA /\ asset_urls[k] \notin {"", None} }
         IN  [ret |-> updated_fields # {},
              df |-> [df EXCEPT ![row_idx] =
                        [c \in CSV_SCHEMA |->
                            IF c \in updated_fields THEN asset_urls[c] ELSE @[c]]]]

\* path_to_url_mapping
UrlColumn(path_key) == path_key \o "_url"

PathKeys == {"front_light", "front_dark", "back", "sleeve_dark", "sleeve_light"}

\* update_composition_paths: the five composition columns, from the entries
\* that are there and not None
update_composition_paths(df, slug, composition_paths) ==
    IF Len(df) = 0 \/ slug \notin SlugValues(df) THEN [ret |-> FALSE, df |-> df]
    ELSE LET row_idx == RowIndex(df, slug)
             keys == { k \in PathKeys : k \in DOMAIN composition_paths
                                          /\ composition_paths[k] \notin {"", None} }
         IN  [ret |-> keys # {},
              df |-> [df EXCEPT ![row_idx] =
                        [c \in CSV_SCHEMA |->
                            IF \E k \in keys : UrlColumn(k) = c
                            THEN composition_paths[CHOOSE k \in keys : UrlColumn(k) = c]
                            ELSE @[c]]]]

\* product_data.get(key, default)
Get(d, key, default) == IF key \in DOMAIN d THEN d[key] ELSE default

\* mark_published: the publication columns and status 'published' in the row
\* of slug
mark_published(df, slug, product_data, now) ==
    IF Len(df) = 0 \/ slug \notin SlugValues(df) THEN [ret |-> FALSE, df |-> df]
    ELSE LET row_idx == RowIndex(df, slug)
             updates == [c \in {"product_type", "product_id", "store_url", "price",
                                "colors_light", "colors_dark", "sizes", "status",
                                "timestamp"} |->
                 CASE c = "product_type" -> Get(product_data, c, "tshirt")
                   [] c = "product_id" -> Get(product_data, c, None)
                   [] c = "store_url" -> Get(product_data, c, None)
                   [] c = "price" -> Get(product_data, c, "35.00")
                   [] c = "colors_light" -> Get(product_data, c, "White,Natural,Sand")
                   [] c = "colors_dark" -> Get(product_data, c, "Black,Charcoal,Navy")
                   [] c = "sizes" -> Get(product_data, c, "S,M,L,XL,XXL")
                   [] c = "status" -> "published"
                   [] OTHER -> isoformat(now)]
         IN  [ret |-> TRUE,
              df |-> [df EXCEPT ![row_idx] =
                        [c \in CSV_SCHEMA |->
                            IF c \in DOMAIN updates /\ updates[c] # None
                            THEN updates[c] ELSE @[c]]]]

\* no CSV at csv_path: pd.DataFrame(columns=self.schema)
InitTracker ==
    /\ value = Ledger(<<>>, <<>>, 0)
    /\ call = TrackerCall("__init__", None, None)
    /\ files = [p \in {} |-> Missing]
    /\ written = [p \in {} |-> Absent]
    /\ io = [p \in {} |-> "none"]
    /\ dirOK = TRUE
    /\ pc = "ready"
    /\ ret = FALSE
    /\ results = NoResults
    /\ attempted = {}

\* the tracker after a call that returned r
Called(op, slug, arg, r) ==
    /\ call' = TrackerCall(op, slug, arg)
    /\ ret' = r.ret
    /\ value' = Ledger(r.df, value.v.df, value.v.clock + 1)
    /\ UNCHANGED <<files, written, dirOK, pc, results, attempted, io>>

CreateEntry ==
    /\ pc = "ready" /\ value.v.clock < MaxOps
    /\ \E slug \in Slugs, title \in Titles :
          Called("create_entry", slug, title,
                 create_entry(value.v.df, slug, title, value.v.clock))

UpdateAssetUrls ==
    /\ pc = "ready" /\ value.v.clock < MaxOps
    /\ \E slug \in Slugs, asset_urls \in AssetDicts :
          Called("update_asset_urls", slug, asset_urls,
                 update_asset_urls(value.v.df, slug, asset_urls))

UpdateCompositionPaths ==
    /\ pc = "ready" /\ value.v.clock < MaxOps
    /\ \E slug \in Slugs, composition_paths \in CompositionDicts :
          Called("update_composition_paths", slug, composition_paths,
                 update_composition_paths(value.v.df, slug, composition_paths))

MarkPublished ==
    /\ pc = "ready" /\ value.v.clock < MaxOps
    /\ \E slug \in Slugs, product_data \in ProductDicts :
          Called("mark_published", slug, product_data,
                 mark_published(value.v.df, slug, product_data, value.v.clock))

NextTracker == CreateEntry \/ UpdateAssetUrls \/ UpdateCompositionPaths \/ MarkPublished

SpecTracker == InitTracker /\ [][NextTracker]_vars

---------------------------------------------------------------------------
(* Step 5 of process_single_image (SpecFlow) *)

Mandatory == {"front_light", "front_dark", "back"}

\* C25: process_single_image is past step 5 only when front_light,
\* front_dark and back were all produced; when the composer has ended with
\* one of the three missing, the next step fails the image.
C25Theorem ==
    /\ pc = "step6" => \A v \in Mandatory : results[v] = OutPath(v)
    /\ (pc \in {"returned", "raised"} /\ \E v \in Mandatory : results[v] = None) =>
          ENABLED (CheckCompositions /\ pc' = "failed") /\ ~ENABLED (CheckCompositions /\ pc' = "step6")

\* past step 5 with exactly the three mandatory outputs
C25Witness ==
    /\ pc = "step6"
    /\ successful_compositions = Mandatory

---------------------------------------------------------------------------
(* src/main_onlyone.py: the batch loop of run_workflow and the eight steps  *)
(* of process_single_image, with the tracker and create_product_advanced    *)
(* (src/products/base_product.py).  A file name is a sequence of pieces of  *)
(* text: words, blanks, dots and colour suffixes.  SpecBatch starts where   *)
(* run_workflow has selected its images.                                    *)

MaxImages == 2

\* the files of UPSCALED_DIR the batch is drawn from
FileNames ==
    { <<"cavallo", ".", "png">>,
      <<"il", " ", "cavallo", ".", "png">>,
      <<"cavallo", "_black", ".", "png">>,
      <<"cavallo", ".", "v2", ".", "png">> }

\* name.rsplit('.', 1)[0] when name has a dot
RECURSIVE rsplit_dot(_)
rsplit_dot(name) ==
    IF \A k \in 1..Len(name) : name[k] # "." THEN name
    ELSE IF name[Len(name)] = "." THEN SubSeq(name, 1, Len(name) - 1)
    ELSE rsplit_dot(SubSeq(name, 1, Len(name) - 1))

color_suffixes == <<"_dark_gray", "_light_gray", "_black", "_white">>

\* the loop over color_suffixes from the k-th on
RECURSIVE strip_suffixes(_, _)
strip_suffixes(name, k) ==
    IF k > Len(color_suffixes) THEN name
    ELSE IF Len(name) > 0 /\ name[Len(name)] = color_suffixes[k]
    THEN strip_suffixes(SubSeq(name, 1, Len(name) - 1), k + 1)
    ELSE strip_suffixes(name, k + 1)

\* text_utils.normalize_product_name
normalize_product_name(filename) ==
    LET stem == IF \E k \in 1..Len(filename) : filename[k] = "."
                THEN rsplit_dot(filename) ELSE filename
    IN  strip_suffixes(stem, 1)

articles == {"il", "la", "lo", "gli", "le", "un", "una", "uno"}

\* re.sub(r'[^a-z0-9\s]', '', piece): what is left of a piece of text
alnum(piece) ==
    CASE piece = "." -> ""
      [] piece = "_dark_gray" -> "darkgray"
      [] piece = "_light_gray" -> "lightgray"
      [] piece = "_black" -> "black"
      [] piece = "_white" -> "white"
      [] OTHER -> piece

\* the words of name: the pieces between blanks, run together; word is the
\* word being read
RECURSIVE words_of(_, _)
words_of(name, word) ==
    IF name = <<>> THEN (IF word = "" THEN <<>> ELSE <<word>>)
    ELSE IF Head(name) = " "
    THEN (IF word = "" THEN <<>> ELSE <<word>>) \o words_of(Tail(name), "")
    ELSE words_of(Tail(name), word \o alnum(Head(name)))

\* '-'.join(words)
RECURSIVE join_dash(_)
join_dash(words) ==
    IF words = <<>> THEN ""
    ELSE IF Len(words) = 1 THEN words[1]
    ELSE words[1] \o "-" \o join_dash(Tail(words))

\* text_utils.generate_kebab_slug
generate_kebab_slug(filename) ==
    LET stem == IF \E k \in 1..Len(filename) : filename[k] = "."
                THEN rsplit_dot(filename) ELSE filename
        name == IF Len(stem) >= 2 /\ stem[1] \in articles /\ stem[2] = " "
                THEN SubSeq(stem, 3, Len(stem)) ELSE stem
    IN  join_dash(words_of(name, ""))

\* text_utils.extract_title_from_slug, on the slugs of FileNames
extract_title_from_slug(slug) ==
    CASE slug = "cavallo" -> "Cavallo"
      [] slug = "cavalloblack" -> "Cavalloblack"
      [] slug = "cavallov2" -> "Cavallov2"
      [] OTHER -> slug

BatchSlugs == { generate_kebab_slug(f) : f \in FileNames }

\* os.path.join(output_dir, slug, f"{slug}_{variant}.png")
BatchPath(slug, v) == "artifacts/" \o slug \o "/" \o slug \o "_" \o v \o ".png"

BatchPaths == { BatchPath(s, v) : s \in BatchSlugs, v \in Variants }

\* the link Imgur returns for a composition
CompositionUrl(slug, v) == "https://i.imgur.com/" \o slug \o "_" \o v \o ".png"

\* result of process_single_image
Result(image, slug, title) ==
    [image |-> image, slug |-> slug, title |-> title, success |-> FALSE,
     steps_completed |-> <<>>, errors |-> <<>>, products_created |-> <<>>]

NoResult == Result(0, "", "")

NoPaths == [v \in Variants |-> None]

Batch(i, active, result, batch_results, df, clock, paths, urls, writing, product, done) ==
    [ok |-> TRUE,
     v |-> [i |-> i, active |-> active, result |-> result,
            batch_results |-> batch_results, df |-> df, clock |-> clock,
            composition_paths |-> paths, composition_urls |-> urls,
            writing |-> writing, product |-> product, done |-> done]]

NoProduct == [success |-> FALSE, product_id |-> None, slug |-> None]

InitBatch ==
    /\ \E n \in 1..MaxImages :
       \E images \in [1..n -> FileNames] :
       \E product_types \in {<<"tshirt">>, <<"tshirt", "hoodie">>} :
          /\ \A a, b \in 1..n : images[a] = images[b] => a = b
          /\ call = [op |-> "run_workflow", selected_images |-> images,
                     product_types |-> product_types]
    /\ value = Batch(1, {}, NoResult, <<>>, <<>>, 0, NoPaths, NoPaths, {}, NoProduct, {})
    /\ files = [p \in {} |-> Missing]
    /\ written = [p \in BatchPaths |-> Absent]
    /\ io = [p \in {} |-> "none"]
    /\ dirOK = TRUE
    /\ pc = "loop"
    /\ ret = FALSE
    /\ results = NoResults
    /\ attempted = {}

BatchFrame == UNCHANGED <<files, dirOK, call, ret, results, attempted, io>>

\* the batch state with some fields replaced
With(b, f) == [ok |-> TRUE, v |-> [k \in DOMAIN b |-> IF k \in DOMAIN f THEN f[k] ELSE b[k]]]

\* result with one more completed step
Completed(result, step) ==
    [result EXCEPT !.steps_completed = Append(@, step)]

\* raise Exception(msg) inside the try of process_single_image
Raise(msg) ==
    /\ value' = With(value.v, [result |->
                    [value.v.result EXCEPT !.errors = Append(@, msg)],
                    writing |-> {}])
    /\ pc' = "return"
    /\ UNCHANGED written

MutStartImageNoAwait ==
    /\ pc \in {"loop", "step5"} /\ call.op = "run_workflow"
    /\ value.v.i + Cardinality(value.v.active) <= Len(call.selected_images)
    /\ LET image == value.v.i + Cardinality(value.v.active)
           slug == generate_kebab_slug(call.selected_images[image])
       IN  value' = With(value.v,
                      [active |-> value.v.active \cup {image},
                       result |-> Result(image, slug, extract_title_from_slug(slug)),
                       writing |-> {}])
    /\ pc' = "step1"
    /\ UNCHANGED written
    /\ BatchFrame

\* for i, image_path in enumerate(selected_images, 1): result = await
\* self.process_single_image(...), up to the try
StartImage ==
    /\ pc = "loop" /\ call.op = "run_workflow"
    /\ value.v.i <= Len(call.selected_images)
    /\ LET slug == generate_kebab_slug(call.selected_images[value.v.i])
       IN  value' = With(value.v,
                      [active |-> value.v.active \cup {value.v.i},
                       result |-> Result(value.v.i, slug, extract_title_from_slug(slug)),
                       writing |-> {}])
    /\ pc' = "step1"
    /\ UNCHANGED written
    /\ BatchFrame

\* step 1: tracker.create_entry(slug, title)
Step1TrackerEntry ==
    /\ pc = "step1"
    /\ LET r == create_entry(value.v.df, value.v.result.slug, value.v.result.title,
                             value.v.clock)
       IN  value' = With(value.v,
                      [df |-> r.df, clock |-> value.v.clock + 1,
                       result |-> IF r.ret THEN Completed(value.v.result, "tracker_entry")
                                  ELSE value.v.result])
    /\ pc' = "step2"
    /\ UNCHANGED written
    /\ BatchFrame

\* step 2: both title rasters, or the exception
Step2Titles ==
    /\ pc = "step2"
    /\ \/ /\ value' = With(value.v, [result |-> Completed(value.v.result, "titles_generated")])
          /\ pc' = "step3"
          /\ UNCHANGED written
       \/ Raise("Generazione titoli fallita")
    /\ BatchFrame

\* step 3: the two uploads; upload_image raises, or both URLs are there
Step3UploadTitles ==
    /\ pc = "step3"
    /\ \/ /\ value' = With(value.v, [result |-> Completed(value.v.result, "titles_uploaded")])
          /\ pc' = "step4"
          /\ UNCHANGED written
       \/ Raise("upload_image")
    /\ BatchFrame

\* step 4: the artwork upload, then tracker.update_asset_urls
Step4Assets ==
    /\ pc = "step4"
    /\ \/ /\ LET complete_assets ==
                    [k \in {"wordmark_dark", "title_dark_url", "title_light_url",
                            "artwork_url"} |-> "https://i.imgur.com/" \o k \o ".png"]
                 r == update_asset_urls(value.v.df, value.v.result.slug, complete_assets)
             IN  value' = With(value.v, [df |-> r.df,
                               result |-> Completed(value.v.result, "assets_prepared")])
          /\ pc' = "step5"
          /\ UNCHANGED written
       \/ Raise("upload_image")
    /\ BatchFrame

\* asset_paths holds the Imgur URLs of the logos: compose_sleeve finds no
\* file and returns False; a front and the back are saved or not
ComposeOutcomes(v) == IF v \in {"sleeve_dark", "sleeve_light"} THEN {FALSE} ELSE BOOLEAN

ComposeOrder == <<"front_light", "front_dark", "back", "sleeve_dark", "sleeve_light">>

\* the next output create_all_variants_for_product turns to
NextVariant ==
    ComposeOrder[Cardinality(value.v.done) + 1]

\* step 5, one composition of create_all_variants_for_product: the output
\* is saved under the slug of the image, or it is not; before the first
\* one os.makedirs can raise
Step5Compose ==
    /\ pc = "step5"
    /\ Cardinality(value.v.done) < Len(ComposeOrder)
    /\ \/ LET v == NextVariant
              path == BatchPath(value.v.result.slug, v)
          IN  \E saved \in ComposeOutcomes(v) :
                 /\ value' = With(value.v,
                        [composition_paths |->
                             [value.v.composition_paths EXCEPT
                                 ![v] = IF saved THEN path ELSE None],
                         done |-> value.v.done \cup {v},
                         writing |-> IF saved THEN {path} ELSE {}])
                 /\ written' = IF saved
                               THEN [written EXCEPT ![path] = image_new(<<3600, 4800>>)]
                               ELSE written
                 /\ pc' = "step5"
       \/ /\ value.v.done = {}
          /\ Raise("os.makedirs")
    /\ BatchFrame

\* step 5, the count of the outputs
Step5Check ==
    /\ pc = "step5"
    /\ Cardinality(value.v.done) = Len(ComposeOrder)
    /\ IF Cardinality({ v \in Variants : value.v.composition_paths[v] # None }) >= 3
       THEN /\ value' = With(value.v, [result |-> Completed(value.v.result,
                                                      "compositions_created"),
                                       writing |-> {}])
            /\ pc' = "step6"
            /\ UNCHANGED written
       ELSE Raise("composizioni create")
    /\ BatchFrame

\* step 6: every output is uploaded, an upload that raises is skipped;
\* three URLs or the exception
Step6UploadCompositions ==
    /\ pc = "step6"
    /\ \E uploaded \in SUBSET { v \in Variants : value.v.composition_paths[v] # None } :
          IF Cardinality(uploaded) >= 3
          THEN /\ LET urls == [v \in Variants |->
                                 IF v \in uploaded
                                 THEN CompositionUrl(value.v.result.slug, v) ELSE None]
                      r == update_composition_paths(value.v.df, value.v.result.slug,
                                                    [v \in uploaded |-> urls[v]])
                  IN  value' = With(value.v,
                          [df |-> r.df, composition_urls |-> urls,
                           result |-> Completed(value.v.result, "compositions_uploaded")])
               /\ pc' = "step7"
               /\ UNCHANGED written
          ELSE Raise("Upload composizioni insufficienti")
    /\ BatchFrame

\* step 7: the QA report, valid or not, or the validator raises
Step7QA ==
    /\ pc = "step7"
    /\ \/ /\ value' = With(value.v, [result |-> Completed(value.v.result, "qa_validated"),
                                     done |-> {}])
          /\ pc' = "step8"
          /\ UNCHANGED written
       \/ Raise("run_full_qa_validation")
    /\ BatchFrame

\* BaseProduct.create_product_advanced: the slug from the file name, the
\* tracker's composition columns, the product sent to Printful, and with
\* an id in the response the tracker's row marked published.  response is
\* the id Printful returned, None when there was none.
create_product_advanced(df, filename, composition_urls, product_type, response, clock) ==
    LET slug == generate_kebab_slug(normalize_product_name(filename))
        urls == { v \in DOMAIN composition_urls : composition_urls[v] # None }
        df1  == update_composition_paths(df, slug, [v \in urls |-> composition_urls[v]]).df
    IN  IF response = None
        THEN [success |-> FALSE, product_id |-> None, slug |-> slug, df |-> df1]
        ELSE [success |-> TRUE, product_id |-> response, slug |-> slug,
              df |-> mark_published(df1, slug,
                        [k \in {"product_type", "product_id", "price", "colors_light",
                                "colors_dark", "sizes"} |->
                            CASE k = "product_type" -> product_type
                              [] k = "product_id" -> response
                              [] k = "price" -> "35.00"
                              [] k = "colors_light" -> "White"
                              [] k = "colors_dark" -> "Black"
                              [] OTHER -> "S,M,L,XL,XXL"],
                        clock).df]

\* the id Printful gives the product of an image
ProductId(image, product_type) == ToString(100 * image) \o "-" \o product_type

\* step 8, one turn of the loop over product_types
Step8CreateProduct ==
    /\ pc = "step8"
    /\ Cardinality(value.v.done) < Len(call.product_types)
    /\ LET product_type == call.product_types[Cardinality(value.v.done) + 1]
       IN  \E response \in {None, ProductId(value.v.i, product_type)} :
              LET r == create_product_advanced(value.v.df,
                           call.selected_images[value.v.i], value.v.composition_urls,
                           product_type, response, value.v.clock)
              IN  value' = With(value.v,
                     [df |-> r.df, clock |-> value.v.clock + 1,
                      done |-> value.v.done \cup {product_type},
                      product |-> [success |-> r.success, product_id |-> r.product_id,
                                   slug |-> r.slug],
                      result |-> IF r.success
                                 THEN [value.v.result EXCEPT
                                          !.products_created = Append(@, r.product_id)]
                                 ELSE [value.v.result EXCEPT
                                          !.errors = Append(@, product_type)]])
    /\ pc' = "step8"
    /\ UNCHANGED written
    /\ BatchFrame

\* after the loop over product_types: success when a product was created
Step8Finish ==
    /\ pc = "step8"
    /\ Cardinality(value.v.done) = Len(call.product_types)
    /\ value' = With(value.v,
           [result |-> IF value.v.result.products_created # <<>>
                       THEN [Completed(value.v.result, "products_created")
                                EXCEPT !.success = TRUE]
                       ELSE value.v.result])
    /\ pc' = "return"
    /\ UNCHANGED written
    /\ BatchFrame

MutReturnEndsBatch ==
    /\ pc = "return"
    /\ value' = With(value.v,
           [active |-> value.v.active \ {value.v.i},
            batch_results |-> Append(value.v.batch_results, value.v.result),
            result |-> NoResult, composition_paths |-> NoPaths,
            composition_urls |-> NoPaths, done |-> {}, product |-> NoProduct,
            writing |-> {}])
    /\ pc' = IF value.v.i < Len(call.selected_images) /\ value.v.result.errors = <<>>
             THEN "sleep" ELSE "summary"
    /\ UNCHANGED written
    /\ BatchFrame

\* return result; batch_results.append(result); the pause when images remain
ReturnImage ==
    /\ pc = "return"
    /\ value' = With(value.v,
           [active |-> value.v.active \ {value.v.i},
            batch_results |-> Append(value.v.batch_results, value.v.result),
            result |-> NoResult, composition_paths |-> NoPaths,
            composition_urls |-> NoPaths, done |-> {}, product |-> NoProduct,
            writing |-> {}])
    /\ pc' = IF value.v.i < Len(call.selected_images) THEN "sleep" ELSE "summary"
    /\ UNCHANGED written
    /\ BatchFrame

\* await asyncio.sleep(5), and the next turn of the loop
Sleep ==
    /\ pc = "sleep"
    /\ value' = With(value.v, [i |-> value.v.i + 1])
    /\ pc' = "loop"
    /\ UNCHANGED written
    /\ BatchFrame

\* print_session_summary and the final report
Summary ==
    /\ pc = "summary"
    /\ pc' = "done"
    /\ UNCHANGED <<written, value>>
    /\ BatchFrame

NextBatch ==
    \/ StartImage
    \/ Step1TrackerEntry
    \/ Step2Titles
    \/ Step3UploadTitles
    \/ Step4Assets
    \/ Step5Compose
    \/ Step5Check
    \/ Step6UploadCompositions
    \/ Step7QA
    \/ Step8CreateProduct
    \/ Step8Finish
    \/ ReturnImage
    \/ Sleep
    \/ Summary

SpecBatch == InitBatch /\ [][NextBatch]_vars

---------------------------------------------------------------------------
(* Properties of the batch (SpecBatch) *)

Range(s) == { s[k] : k \in 1..Len(s) }

InImage == pc \in {"step1", "step2", "step3", "step4", "step5", "step6", "step7",
                   "step8", "return"}

\* C23: one product at a time and one composition at a time: at most one
\* process_single_image call is in progress, the call for an image starts
\* only when the calls for all images before it have returned, the outputs
\* of a product are composed in the order front_light, front_dark, back,
\* sleeve_dark, sleeve_light, and no step writes more than one output path.
C23Theorem ==
    call.op = "run_workflow" =>
        /\ Cardinality(value.v.active) <= 1
        /\ InImage => value.v.active = {value.v.i}
        /\ ~InImage => value.v.active = {}
        /\ InImage => Len(value.v.batch_results) = value.v.i - 1
        /\ Cardinality(value.v.writing) <= 1
        /\ pc = "step5" =>
              /\ \A k \in 1..Len(ComposeOrder) :
                    ComposeOrder[k] \in value.v.done =>
                        \A j \in 1..k : ComposeOrder[j] \in value.v.done
              /\ value.v.writing \subseteq
                    { BatchPath(value.v.result.slug, v) : v \in value.v.done }

\* the second image of a batch in its compositions: the first call has
\* returned, front_light is done and front_dark has just been written
C23Witness ==
    /\ call.op = "run_workflow" /\ pc = "step5"
    /\ value.v.i = 2 /\ Len(value.v.batch_results) = 1
    /\ value.v.done = {"front_light", "front_dark"}
    /\ value.v.writing = {BatchPath(value.v.result.slug, "front_dark")}
    /\ value.v.batch_results[1].slug # value.v.result.slug
    /\ written[BatchPath(value.v.batch_results[1].slug, "back")].kind = "canvas"

\* the image did not get through its last step
Failed(r) == "products_created" \notin Range(r.steps_completed)

C27Claim ==
    (call.op = "run_workflow" /\ pc = "step8" /\ value.v.product.success
        /\ "tracker_entry" \in Range(value.v.result.steps_completed)) =>
        /\ value.v.result.slug \in SlugValues(value.v.df)
        /\ value.v.df[RowIndex(value.v.df, value.v.result.slug)]["status"] = "published"
        /\ value.v.df[RowIndex(value.v.df, value.v.result.slug)]["product_id"]
              = value.v.product.product_id

====
